---------------------------- MODULE Spec2Model ----------------------------
(***************************************************************************)
(* A model of reproenv: install-command synthesis, template validation,    *)
(* template instances, the template registry and the Docker / Singularity  *)
(* renderers.                                                              *)
(*                                                                         *)
(* Text.  A Python str is modelled as a sequence of atoms.  An atom is a   *)
(* TLA+ string that stands for the characters it spells.  Whitespace, the  *)
(* newline, the backslash, '#', '&', '|', quotes and brackets are always   *)
(* atoms of one character; a longer atom is a run of characters that       *)
(* neither begins nor ends with whitespace and holds no newline (a keyword *)
(* of the code such as "FROM", or a word of caller input).  Caller input   *)
(* is drawn from words that cannot spell an atom of the code, so two       *)
(* modelled texts are equal exactly when the Python strings are.           *)
(* Package names are sequences of one-character atoms, compared as Python  *)
(* compares str values: lexicographically by code point.                   *)
(***************************************************************************)
EXTENDS Integers, Sequences, FiniteSets, TLC

VARIABLES
    pkgs,        \* _apt_install/_yum_install: the caller's package list
    opts,        \* _apt_install/_yum_install: the caller's opts (None or text)
    command,     \* the last synthesized install command (None before a call)
    template,    \* state.py: the template dict the caller holds
    _templates,  \* state.py: _TemplateRegistry._templates
    outcome,     \* state.py: what the last registry / validation call did
    kind,        \* template.py: the class constructed, "binaries" or "source"
    registered,  \* the names registered since the last reset, see Register
    block,       \* template.py: the method dict handed to the constructor
    kwds,        \* template.py: the keyword arguments handed to the constructor
    instance,    \* template.py: the constructed instance, or the error raised
    renderers,   \* renderers.py: the renderer objects the caller has constructed
    usets,       \* the set objects that renderers' _users attributes refer to
    srclist,     \* the caller's list object that it hands to copy() as source
    hist,        \* per renderer: the users at construction and the calls made
    last,        \* what the last call on a renderer returned or raised
    calls        \* the number of calls made on renderers so far

installVars == <<pkgs, opts, command>>
validationVars == <<template, _templates, outcome, registered>>
instanceVars == <<kind, block, kwds, instance>>
rendererVars == <<renderers, usets, srclist, hist, last, calls>>
vars == <<installVars, validationVars, instanceVars, rendererVars>>
\* what the operations of one part of the program leave alone
notInstall == <<validationVars, instanceVars, rendererVars>>
notValidation == <<installVars, instanceVars, rendererVars>>
notInstance == <<installVars, validationVars, rendererVars>>
notRenderer == <<installVars, validationVars, instanceVars>>

None == "None"

\* a dict key that is missing, or None where the value is otherwise a dict
Absent == [absent |-> TRUE]

NL == "\n"
SP == " "
BS == "\\"

-----------------------------------------------------------------------------
(* str helpers *)

\* sep.join(parts)
RECURSIVE Join(_, _)
Join(sep, parts) ==
    IF parts = <<>> THEN <<>>
    ELSE IF Len(parts) = 1 THEN parts[1]
    ELSE parts[1] \o sep \o Join(sep, Tail(parts))

\* index of the first newline of s, 0 when there is none
RECURSIVE FirstNL(_, _)
FirstNL(s, i) ==
    IF i > Len(s) THEN 0
    ELSE IF s[i] = NL THEN i
    ELSE FirstNL(s, i + 1)

\* s.splitlines(): no line for the empty tail after a final newline
RECURSIVE SplitLines(_)
SplitLines(s) ==
    IF s = <<>> THEN <<>>
    ELSE LET i == FirstNL(s, 1)
         IN  IF i = 0 THEN <<s>>
             ELSE <<SubSeq(s, 1, i - 1)>> \o SplitLines(SubSeq(s, i + 1, Len(s)))

IsSpace(c) == c \in {SP, NL}

\* s.lstrip(), s.rstrip(), s.strip()
RECURSIVE LStrip(_)
LStrip(s) ==
    IF s # <<>> /\ IsSpace(s[1]) THEN LStrip(Tail(s)) ELSE s

RECURSIVE RStrip(_)
RStrip(s) ==
    IF s # <<>> /\ IsSpace(s[Len(s)]) THEN RStrip(SubSeq(s, 1, Len(s) - 1)) ELSE s

Strip(s) == RStrip(LStrip(s))

\* s.startswith(p), s.endswith(p), p in s
StartsWith(s, p) == Len(p) <= Len(s) /\ SubSeq(s, 1, Len(p)) = p

EndsWith(s, p) == Len(p) <= Len(s) /\ SubSeq(s, Len(s) - Len(p) + 1, Len(s)) = p

Contains(s, p) ==
    \E i \in 1..(Len(s) - Len(p) + 1) : SubSeq(s, i, i + Len(p) - 1) = p

-----------------------------------------------------------------------------
(* str ordering and sorted() *)

\* ord(c) of the characters package names are drawn from
Ord(c) ==
    CASE c = "-" -> 45
      [] c = "2" -> 50
      [] c = "a" -> 97
      [] c = "b" -> 98

\* a < b for two str values
RECURSIVE StrLess(_, _)
StrLess(a, b) ==
    IF b = <<>> THEN FALSE
    ELSE IF a = <<>> THEN TRUE
    ELSE IF Ord(a[1]) < Ord(b[1]) THEN TRUE
    ELSE IF Ord(a[1]) > Ord(b[1]) THEN FALSE
    ELSE StrLess(Tail(a), Tail(b))

\* insert x into the sorted list l after every element that is not greater
\* (sorted() is stable)
RECURSIVE Insert(_, _)
Insert(x, l) ==
    IF l = <<>> THEN <<x>>
    ELSE IF StrLess(x, l[1]) THEN <<x>> \o l
    ELSE <<l[1]>> \o Insert(x, Tail(l))

\* sorted(l): a new list, l itself is left alone
RECURSIVE Sorted(_)
Sorted(l) ==
    IF l = <<>> THEN <<>>
    ELSE Insert(l[Len(l)], Sorted(SubSeq(l, 1, Len(l) - 1)))

-----------------------------------------------------------------------------
(* install-command synthesis: renderers.py, _install and below *)

\* bounds of the inputs
MaxPkgs == 2
MaxNameLen == 2

NameChars == {"-", "2", "a", "b"}

\* package names: non-empty str values of at most MaxNameLen characters
PkgNames == UNION {[1..n -> NameChars] : n \in 1..MaxNameLen}

PkgLists == UNION {[1..n -> PkgNames] : n \in 0..MaxPkgs}

OptsValues == {None, <<"-q">>, <<"--quiet", SP, "--yes">>}

\* " \\\n    ".join(pkgs)
PkgSep == <<SP, BS, NL, SP, SP, SP, SP>>

_apt_install_nosort(pkgs_, opts_, sort) ==
    LET o == IF opts_ = None THEN <<"-q", SP, "--no-install-recommends">> ELSE opts_
        s == <<"apt-get update -qq", NL, "apt-get install -y", SP>> \o o
             \o <<SP, BS, NL, SP, SP, SP, SP>> \o Join(PkgSep, pkgs_)
             \o <<NL, "rm -rf /var/lib/apt/lists/*", NL>>
    IN  Strip(s)

\* an apt command that cleans up before it installs
_apt_install_cleanup_first(pkgs_, opts_, sort) ==
    LET p == IF sort THEN Sorted(pkgs_) ELSE pkgs_
        o == IF opts_ = None THEN <<"-q", SP, "--no-install-recommends">> ELSE opts_
        s == <<"apt-get update -qq", NL, "rm -rf /var/lib/apt/lists/*", NL,
               "apt-get install -y", SP>> \o o
             \o <<SP, BS, NL, SP, SP, SP, SP>> \o Join(PkgSep, p) \o <<NL>>
    IN  Strip(s)

_apt_install(pkgs_, opts_, sort) ==
    LET p == IF sort THEN Sorted(pkgs_) ELSE pkgs_
        o == IF opts_ = None THEN <<"-q", SP, "--no-install-recommends">> ELSE opts_
        s == <<"apt-get update -qq", NL, "apt-get install -y", SP>> \o o
             \o <<SP, BS, NL, SP, SP, SP, SP>> \o Join(PkgSep, p)
             \o <<NL, "rm -rf /var/lib/apt/lists/*", NL>>
    IN  Strip(s)

_yum_install(pkgs_, opts_, sort) ==
    LET p == IF sort THEN Sorted(pkgs_) ELSE pkgs_
        o == IF opts_ = None THEN <<"-q">> ELSE opts_
        s == <<"yum install -y", SP>> \o o
             \o <<SP, BS, NL, SP, SP, SP, SP>> \o Join(PkgSep, p)
             \o <<NL, "yum clean all", NL, "rm -rf /var/cache/yum/*", NL>>
    IN  Strip(s)

\* _install raises RendererError for any other package manager
RendererError == "RendererError"

_install(pkgs_, pkg_manager, opts_) ==
    IF pkg_manager = "apt" THEN _apt_install(pkgs_, opts_, TRUE)
    ELSE IF pkg_manager = "yum" THEN _yum_install(pkgs_, opts_, TRUE)
    ELSE RendererError

\* The caller holds a package list and an opts value, may reorder the list
\* between calls, and calls a synthesizer.
InstallInputs ==
    /\ pkgs \in PkgLists
    /\ opts \in OptsValues
    /\ command = [fn |-> None, text |-> <<>>]

CallAptInstall ==
    /\ command' = [fn |-> "apt", text |-> _apt_install(pkgs, opts, TRUE)]
    /\ UNCHANGED <<pkgs, opts, notInstall>>

CallYumInstall ==
    /\ command' = [fn |-> "yum", text |-> _yum_install(pkgs, opts, TRUE)]
    /\ UNCHANGED <<pkgs, opts, notInstall>>

\* the caller swaps two neighbours of its list
Reorder ==
    /\ \E i \in 1..(Len(pkgs) - 1) :
          pkgs' = [pkgs EXCEPT ![i] = pkgs[i + 1], ![i + 1] = pkgs[i]]
    /\ UNCHANGED <<opts, command, notInstall>>

NextInstall == CallAptInstall \/ CallYumInstall \/ Reorder

-----------------------------------------------------------------------------
(* template dicts and their validation: state.py *)

TemplateError == "TemplateError"
TemplateNotFound == "TemplateNotFound"
ValueError == "ValueError"
Ok == "ok"

\* "self.install_dependencies()"
Marker == <<"self.", "install_dependencies", "(", ")">>

\* instructions texts of the templates drawn: without the marker, with it,
\* with a call spelled differently, and with references to bound arguments
InstrPlain == <<"echo", SP, "hi">>
InstrMarker == <<"{{", SP>> \o Marker \o <<SP, "}}", NL, "echo", SP, "hi">>
InstrSpaced == <<"{{", SP, "self.", "install_dependencies", "(", SP, ")", SP, "}}">>
InstrUrl ==
    <<"curl", SP, "{{", SP, "self.", "urls", "[", "self.", "version", "]", SP, "}}">>

\* a "dependencies" dict: a list per package manager.  dict.get(manager, [])
\* and any(values()) do not tell a missing key from an empty list, so a
\* missing key is modelled as the empty list.
NoDeps == [apt |-> <<>>, debs |-> <<>>, yum |-> <<>>]
DepsValues ==
    { NoDeps,
      [apt |-> <<<<"a">>>>, debs |-> <<>>, yum |-> <<>>],
      [apt |-> <<>>, debs |-> <<>>, yum |-> <<<<"b">>, <<"a">>>>],
      [apt |-> <<>>, debs |-> <<<<"a", "-", "2">>>>, yum |-> <<>>] }

\* any(template[method]["dependencies"].values())
AnyDeps(deps) == deps.apt # <<>> \/ deps.debs # <<>> \/ deps.yum # <<>>

\* the method blocks drawn for validation
ValidationBlocks ==
    [ instructions : {InstrPlain, InstrMarker, InstrSpaced},
      dependencies : DepsValues \cup {Absent} ]

\* A template dict.  schema_ok stands for the outcome of
\* jsonschema.validate(template, _TEMPLATE_SCHEMA): the schema demands a name,
\* one method at least and instructions in every method.
ValidationTemplates ==
    { t \in [ name : {"jq"},
              binaries : ValidationBlocks \cup {Absent},
              source : ValidationBlocks \cup {Absent},
              schema_ok : BOOLEAN ] :
        (t.binaries = Absent /\ t.source = Absent) => ~t.schema_ok }

\* the dependency check of one method of _validate_template
MethodLacksMarker(t, method) ==
    LET b == IF method = "binaries" THEN t.binaries ELSE t.source
    IN  /\ b # Absent
        /\ b.dependencies # Absent
        /\ AnyDeps(b.dependencies)
        /\ ~Contains(b.instructions, Marker)

\* a validation that stops after the schema
_validate_template_schema_only(t) ==
    IF ~t.schema_ok THEN TemplateError ELSE Ok

_validate_template_binaries_only(t) ==
    IF ~t.schema_ok THEN TemplateError
    ELSE IF MethodLacksMarker(t, "binaries") THEN TemplateError
    ELSE Ok

_validate_template(t) ==
    IF ~t.schema_ok THEN TemplateError
    ELSE IF \E method \in {"binaries", "source"} : MethodLacksMarker(t, method)
         THEN TemplateError
    ELSE Ok

\* a lower() that leaves its argument as it is
LowerIdentity(name) == name

\* str.lower() of the names drawn
Lower(name) ==
    CASE name = "JQ" -> "jq"
      [] name = "Jq" -> "jq"
      [] OTHER -> name

RegistryNames == {"jq", "JQ", "fsl"}

ValidationInputs ==
    /\ template \in ValidationTemplates
    /\ _templates = <<>>
    /\ outcome = [op |-> None]
    /\ registered = <<>>

\* _validate_template(template), called directly
ValidateTemplate ==
    /\ outcome' = [op |-> "validate", result |-> _validate_template(template)]
    /\ UNCHANGED <<template, _templates, registered, notValidation>>

\* _TemplateRegistry.register(name, path_or_template), template being what
\* the path or the dict holds.  how = "dict": the caller's dict is
\* deep-copied; "file": a path to a YAML file that holds the template;
\* "nofile": a path that is no file.  The template is validated and stored
\* under name.lower().  registered keeps the successful calls since the last
\* reset, the latest of each name as given, oldest first.
RegisterTemplate(name, how, t) ==
    LET copy == t
        r == IF how = "nofile" THEN ValueError ELSE _validate_template(copy)
    IN  /\ outcome' = [op |-> "register", name |-> name, result |-> r]
        /\ _templates' =
              IF r = Ok
              THEN [k \in DOMAIN _templates \cup {Lower(name)} |->
                      IF k = Lower(name) THEN copy ELSE _templates[k]]
              ELSE _templates
        /\ registered' =
              IF r = Ok
              THEN Append(SelectSeq(registered, LAMBDA e : e.name # name),
                          [name |-> name, template |-> t])
              ELSE registered
        /\ template' = t
        /\ UNCHANGED notValidation

\* register of the template the behaviour started with
Register(name, how) == RegisterTemplate(name, how, template)

\* _TemplateRegistry._reset()
Reset ==
    /\ _templates' = <<>>
    /\ outcome' = [op |-> "reset"]
    /\ registered' = <<>>
    /\ UNCHANGED <<template, notValidation>>

\* _TemplateRegistry.get(name)
Get(name) ==
    /\ outcome' =
          IF Lower(name) \in DOMAIN _templates
          THEN [op |-> "get", name |-> name, result |-> Ok,
                value |-> _templates[Lower(name)]]
          ELSE [op |-> "get", name |-> name, result |-> TemplateNotFound]
    /\ UNCHANGED <<template, _templates, registered, notValidation>>

\* _TemplateRegistry.keys()
Keys ==
    /\ outcome' = [op |-> "keys", value |-> DOMAIN _templates]
    /\ UNCHANGED <<template, _templates, registered, notValidation>>

NextValidation ==
    \/ ValidateTemplate
    \/ \E name \in RegistryNames, how \in {"dict", "file", "nofile"} : Register(name, how)
    \/ Reset
    \/ \E name \in RegistryNames : Get(name)

\* the variables of a part of the program a specification leaves alone
InstallIdle == pkgs = <<>> /\ opts = None /\ command = [fn |-> None, text |-> <<>>]

ValidationIdle ==
    /\ template = Absent
    /\ _templates = <<>>
    /\ outcome = [op |-> None]
    /\ registered = <<>>

-----------------------------------------------------------------------------
(* template instances: template.py *)

TemplateKeywordArgumentError == "TemplateKeywordArgumentError"

\* A keyword value is a str or an int: [py |-> "str", v |-> "1.5"],
\* [py |-> "int", v |-> 2].  str(value) of the values drawn:
PyStr(x) ==
    IF x.py \in {"str", "callable str"} THEN x.v
    ELSE CASE x.v = 2 -> "2"
           [] x.v = 42 -> "42"

StrVal(v) == [py |-> "str", v |-> v]
IntVal(n) == [py |-> "int", v |-> n]

\* an instance of a subclass of str that defines __call__: isinstance(value,
\* str) holds, so the constructor keeps the object as it is
CallableStr(v) == [py |-> "callable str", v |-> v]

\* names of dir(self) of an instance before its keywords become attributes
\* (the dunder names of object apart)
DirSelf(kind_) ==
    { "_template", "_kwds", "_validate_kwds", "_set_kwds_as_attrs", "template",
      "env", "instructions", "arguments", "required_arguments",
      "optional_arguments", "versions", "dependencies" }
    \cup (IF kind_ = "binaries" THEN {"urls"} ELSE {})

\* _BinariesTemplate.versions, _SourceTemplate.versions
versions_any(kind_, block_) == {"ANY"}

versions(kind_, block_) ==
    IF kind_ = "binaries" THEN DOMAIN block_.urls ELSE {"ANY"}

\* required_arguments, optional_arguments: set(arguments.get(...)) or set()
required_arguments(block_) == block_.arguments.required

optional_arguments(block_) == block_.arguments.optional

\* _validate_kwds over the coerced keywords k: the reason of the
\* TemplateKeywordArgumentError raised, or Ok
_validate_kwds_no_unknown(kind_, block_, k) ==
    IF DOMAIN k \cap DirSelf(kind_) # {} THEN "shadowed"
    ELSE IF required_arguments(block_) \ DOMAIN k # {} THEN "missing"
    ELSE IF /\ "version" \in required_arguments(block_)
            /\ k["version"] \notin versions(kind_, block_)
            /\ versions(kind_, block_) # {"ANY"}
         THEN "version"
    ELSE Ok

_validate_kwds(kind_, block_, k) ==
    IF DOMAIN k \cap DirSelf(kind_) # {} THEN "shadowed"
    ELSE IF required_arguments(block_) \ DOMAIN k # {} THEN "missing"
    ELSE IF DOMAIN k \ (required_arguments(block_) \cup optional_arguments(block_)) # {}
         THEN "unknown"
    ELSE IF /\ "version" \in required_arguments(block_)
            /\ k["version"] \notin versions(kind_, block_)
            /\ versions(kind_, block_) # {"ANY"}
         THEN "version"
    ELSE Ok

\* _BaseInstallationTemplate.__init__ through _BinariesTemplate / _SourceTemplate:
\* the method dict is deep-copied, the values are cast to str, the keywords are
\* validated and then set as attributes
NewInstallationTemplate(kind_, block_, kwds_) ==
    LET k == [n \in DOMAIN kwds_ |-> PyStr(kwds_[n])]
        r == _validate_kwds(kind_, block_, k)
    IN  IF r = Ok
        THEN [status |-> Ok, kind |-> kind_, _template |-> block_, _kwds |-> k,
              attrs |-> k,
              callables |-> {n \in DOMAIN kwds_ : kwds_[n].py = "callable str"}]
        ELSE [status |-> TemplateKeywordArgumentError, why |-> r]

\* the inputs drawn
Url15 == <<"http://x/jq-1.5">>
Url16 == <<"http://x/jq-1.6">>
Url2 == <<"http://x/jq-2">>

UrlsValues ==
    { [v \in {"1.5", "1.6"} |-> IF v = "1.5" THEN Url15 ELSE Url16],
      [v \in {"2"} |-> Url2],
      [v \in {"ANY"} |-> Url2] }

ArgumentsValues ==
    [ required : SUBSET {"version", "name", "env"},
      optional : {{}, {"age"}, {"name"}} ]

InstanceBlocks(kind_) ==
    [ instructions : {InstrUrl},
      env : {<<>>},
      arguments : ArgumentsValues,
      dependencies : {NoDeps},
      urls : IF kind_ = "binaries" THEN UrlsValues ELSE {Absent} ]

KwNames == {"version", "name", "env", "age", "bogus"}

VersionValues == {StrVal("1.5"), StrVal("1.6"), StrVal("2.0"), IntVal(2)}

KwdsValues ==
    UNION { [names -> {StrVal("x")} \cup VersionValues] : names \in SUBSET KwNames }

InstanceInputs ==
    /\ kind \in {"binaries", "source"}
    /\ block \in InstanceBlocks(kind)
    /\ kwds \in { k \in KwdsValues :
                     \A n \in DOMAIN k : (n = "version") <=> (k[n] \in VersionValues) }
    /\ instance = [status |-> None]

\* _BinariesTemplate(block, **kwds) or _SourceTemplate(block, **kwds)
Construct ==
    /\ instance' = NewInstallationTemplate(kind, block, kwds)
    /\ UNCHANGED <<kind, block, kwds, notInstance>>

NextInstance == Construct

InstanceIdle ==
    /\ kind = None
    /\ block = Absent
    /\ kwds = <<>>
    /\ instance = [status |-> None]

-----------------------------------------------------------------------------
(* renderers: renderers.py, _Renderer, DockerRenderer, SingularityRenderer *)

NotImplementedError == "NotImplementedError"
AttributeError == "AttributeError"

\* reproenv.types: the package managers a renderer accepts
allowed_pkg_managers == {"apt", "yum"}

\* reproenv.types: the installation methods of a template
allowed_installation_methods == {"binaries", "source"}

\* " " * n
Spaces(n) == [i \in 1..n |-> SP]

\* The words of caller input that spell a str beginning with w; of the words
\* drawn below only these begin with "fi" or "if".
WordsStartingWith(w) ==
    CASE w = "fi" -> {"fi", "find"}
      [] w = "if" -> {"if"}

\* line.startswith(w) for a word w
StartsWithWord(line, w) == line # <<>> /\ line[1] \in WordsStartingWith(w)

\* one turn of the loop of _indent_run_instruction, for lines[ii] (from 1)
\* a reflow that knows nothing of if blocks
IndentLineNoBlocks(lines, ii, indent) ==
    LET line == RStrip(lines[ii])
        is_last_line == ii = Len(lines)
        already_cont == StartsWith(line, <<"&">>) \/ StartsWith(line, <<"|">>)
        is_comment == StartsWith(line, <<"#">>)
        previous_cont == ii > 1 /\ EndsWith(lines[ii - 1], <<BS>>)
        joined == IF ii > 1 /\ ~already_cont /\ ~previous_cont /\ ~is_comment
                  THEN <<"&", "&", SP>> \o line
                  ELSE line
        indented == IF ii = 1 THEN joined
                    ELSE IF ~already_cont /\ previous_cont
                         THEN Spaces(indent + 3) \o joined
                         ELSE Spaces(indent) \o joined
    IN  IF ~is_last_line /\ ~EndsWith(indented, <<BS>>) /\ ~is_comment
        THEN indented \o <<SP, BS>>
        ELSE indented

IndentLine(lines, ii, indent) ==
    LET line == RStrip(lines[ii])
        is_last_line == ii = Len(lines)
        already_cont == \/ StartsWith(line, <<"&">>)
                        \/ StartsWith(line, <<"|">>)
                        \/ StartsWithWord(line, "fi")
        is_comment == StartsWith(line, <<"#">>)
        previous_cont == /\ ii > 1
                         /\ \/ EndsWith(lines[ii - 1], <<BS>>)
                            \/ StartsWithWord(lines[ii - 1], "if")
        joined == IF ii > 1 /\ ~already_cont /\ ~previous_cont /\ ~is_comment
                  THEN <<"&", "&", SP>> \o line
                  ELSE line
        indented == IF ii = 1 THEN joined
                    ELSE IF ~already_cont /\ previous_cont
                         THEN Spaces(indent + 3) \o joined
                         ELSE Spaces(indent) \o joined
    IN  IF ~is_last_line /\ ~EndsWith(indented, <<BS>>) /\ ~is_comment
        THEN indented \o <<SP, BS>>
        ELSE indented

_indent_run_instruction(string) ==
    LET lines == SplitLines(string)
    IN  Join(<<NL>>, [ii \in 1..Len(lines) |-> IndentLine(lines, ii, 4)])

\* f'{k}="{v}"' for the items of a dict, in the order of the dict
KeyValues(d) == [i \in 1..Len(d) |-> <<d[i][1], "=", "\"", d[i][2], "\"">>]

\* DockerRenderer: the instruction each method appends to _parts
DockerArg(key, value) ==
    IF value = None THEN <<"ARG", SP, key>> ELSE <<"ARG", SP, key, "=", value>>

DockerCopy(source, from_, chown) ==
    LET sep == <<"\"", ",", SP, BS, NL>> \o Spaces(6) \o <<"\"">>
        files == <<"[", "\"">> \o Join(sep, [i \in 1..Len(source) |-> <<source[i]>>])
                 \o <<"\"", "]">>
    IN  <<"COPY", SP>>
        \o (IF from_ # None THEN <<"--from=", from_, SP>> ELSE <<>>)
        \o (IF chown # None THEN <<"--chown=", chown, SP>> ELSE <<>>)
        \o files

DockerEnv(d) == <<"ENV", SP>> \o Join(<<SP, BS, NL>> \o Spaces(4), KeyValues(d))

DockerFrom(base_image, as_) ==
    IF as_ = None THEN <<"FROM", SP>> \o base_image
    ELSE <<"FROM", SP>> \o base_image \o <<SP, "AS", SP, as_>>

DockerLabel(d) == <<"LABEL", SP>> \o Join(<<SP, BS, NL>> \o Spaces(6), KeyValues(d))

DockerRun(command_) == _indent_run_instruction(<<"RUN", SP>> \o command_)

DockerUserAdd(user) ==
    <<"RUN", SP, "test", SP, "\"", "$(getent passwd", SP, user, ")", "\"", SP, BS, NL>>
    \o Spaces(4)
    \o <<"|", "|", SP, "useradd --no-user-group --create-home --shell /bin/bash",
         SP, user>>

DockerUser(user) == <<"USER", SP, user>>

DockerWorkdir(path) == <<"WORKDIR", SP, path>>

\* SingularityRenderer: what each method adds to its section
SingularityArg(key, value) == IF value = None THEN <<key>> ELSE <<key, "=", value>>

SingularityCopy(source, destination) ==
    [i \in 1..Len(source) |-> <<source[i], SP, destination>>]

SingularityUserAdd(user) ==
    <<"test", SP, "\"", "$(getent passwd", SP, user, ")", "\"", SP, BS, NL,
      "|", "|", SP, "useradd --no-user-group --create-home --shell /bin/bash",
      SP, user, NL>>

SingularityUser(user) == <<"su", SP, "-", SP, user>>

SingularityWorkdir(path) == <<"mkdir -p", SP, path, NL, "cd", SP, path>>

\* dict.update(d): a key already there keeps its place and takes the new value
RECURSIVE DictUpdate(_, _)
DictUpdate(old, d) ==
    IF d = <<>> THEN old
    ELSE LET k == d[1][1]
             at == {i \in 1..Len(old) : old[i][1] = k}
         IN  DictUpdate(IF at = {} THEN Append(old, d[1])
                        ELSE [i \in 1..Len(old) |-> IF i \in at THEN d[1] ELSE old[i]],
                        Tail(d))

\* str(renderer)
DockerStr(rec) == Join(<<NL>>, rec._parts)

\* the parts of SingularityRenderer.__str__: each is empty when its bucket is
SingularityHeader(rec) ==
    IF rec._header # <<>>
    THEN <<"Bootstrap:", SP, rec._header[1], NL, "From:", SP>> \o rec._header[2]
    ELSE <<>>

SingularityFiles(rec) ==
    IF rec._files # <<>>
    THEN <<NL, NL, "%files", NL>> \o Join(<<NL>>, rec._files)
    ELSE <<>>

SingularityEnvironment(rec) ==
    IF rec._environment # <<>>
    THEN <<NL, NL, "%environment">>
         \o Join(<<>>, [i \in 1..Len(rec._environment) |->
                          <<NL, "export", SP, rec._environment[i][1], "=", "\"",
                            rec._environment[i][2], "\"">>])
    ELSE <<>>

SingularityPost(rec) ==
    IF rec._post # <<>>
    THEN <<NL, NL, "%post", NL>> \o Join(<<NL, NL>>, rec._post)
    ELSE <<>>

SingularityRunscript(rec) ==
    IF rec._runscript # <<>>
    THEN <<NL, NL, "%runscript", NL>> \o rec._runscript
    ELSE <<>>

SingularityLabels(rec) ==
    IF rec._labels # <<>>
    THEN <<NL, NL, "%labels", NL>>
         \o Join(<<>>, [i \in 1..Len(rec._labels) |->
                          <<rec._labels[i][1], SP, rec._labels[i][2]>>])
    ELSE <<>>

\* a __str__ that writes the sections in the order the buckets were declared
\* in, but %post ahead of the rest
SingularityStrPostFirst(rec) ==
    SingularityHeader(rec) \o SingularityPost(rec) \o SingularityFiles(rec)
    \o SingularityEnvironment(rec) \o SingularityRunscript(rec)
    \o SingularityLabels(rec)

SingularityStr(rec) ==
    SingularityHeader(rec) \o SingularityFiles(rec) \o SingularityEnvironment(rec)
    \o SingularityPost(rec) \o SingularityRunscript(rec) \o SingularityLabels(rec)

__str__(rec) == IF rec.cls = "docker" THEN DockerStr(rec) ELSE SingularityStr(rec)

\* rm_empty_lines of __eq__
rm_empty_lines_keep_comments(s) ==
    Join(<<NL>>, SelectSeq(SplitLines(s), LAMBDA j : Strip(j) # <<>>))

rm_empty_lines(s) ==
    Join(<<NL>>, SelectSeq(SplitLines(s),
                           LAMBDA j : Strip(j) # <<>> /\ ~StartsWith(Strip(j), <<"#">>)))

\* bool as the caller sees it
PyBool(b) == IF b THEN "True" ELSE "False"

\* the renderer slots of the caller, the user names and the set objects: set
\* object 0 is a set the caller owns, set object r is the set that renderer r
\* makes for itself when it is given none
RendIds == {1, 2}
Users == {"root", "bob", "amy"}
CallerSet == 0

\* the most calls made on one renderer, and on a pair of renderers, in one run
MaxCalls == 3
MaxPairCalls == 3

NoRenderer ==
    [ live |-> FALSE, cls |-> None, pkg_manager |-> None, _users |-> CallerSet,
      _parts |-> <<>>, _header |-> <<>>, _files |-> <<>>, _environment |-> <<>>,
      _post |-> <<>>, _runscript |-> <<>>, _labels |-> <<>> ]

RendererIdle ==
    /\ renderers = [r \in RendIds |-> NoRenderer]
    /\ usets = [i \in {CallerSet} \cup RendIds |-> {}]
    /\ srclist = <<>>
    /\ hist = [r \in RendIds |-> [users0 |-> {}, log |-> <<>>]]
    /\ last = [rid |-> 0, op |-> None, args |-> <<>>, raised |-> None, value |-> None]
    /\ calls = 0

\* the caller owns a set of user names and a list of paths
RendererInputs ==
    /\ renderers = [r \in RendIds |-> NoRenderer]
    /\ usets = [i \in {CallerSet} \cup RendIds |->
                   IF i = CallerSet THEN {"root"} ELSE {}]
    /\ srclist = <<"a.txt", "b.txt">>
    /\ hist = [r \in RendIds |-> [users0 |-> {}, log |-> <<>>]]
    /\ last = [rid |-> 0, op |-> None, args |-> <<>>, raised |-> None, value |-> None]
    /\ calls = 0

\* a call on renderer r returns (raised = None) or raises
Returned(r, op, args, raised, value) ==
    /\ hist' = [hist EXCEPT ![r].log =
                   Append(@, [op |-> op, args |-> args, raised |-> raised,
                              value |-> value])]
    /\ last' = [rid |-> r, op |-> op, args |-> args, raised |-> raised,
                value |-> value]
    /\ calls' = calls + 1

Live(r) == renderers[r].live

\* DockerRenderer(pkg_manager, users) or SingularityRenderer(pkg_manager, users):
\* users is None or the caller's set object
\* a constructor that takes any package manager
NewAnyManager(r, cls, pkg_manager, users) ==
    /\ ~renderers[r].live
    /\ LET ref == IF users = None THEN r ELSE CallerSet
       IN  /\ usets' = IF users = None THEN [usets EXCEPT ![r] = {"root"}] ELSE usets
           /\ renderers' = [renderers EXCEPT ![r] =
                               [NoRenderer EXCEPT !.live = TRUE, !.cls = cls,
                                                  !.pkg_manager = pkg_manager,
                                                  !._users = ref]]
           /\ hist' = [hist EXCEPT ![r] = [users0 |-> usets'[ref], log |-> <<>>]]
           /\ last' = [rid |-> r, op |-> "new", args |-> <<cls, pkg_manager, users>>,
                       raised |-> None, value |-> None]
    /\ UNCHANGED <<srclist, calls, notRenderer>>

New(r, cls, pkg_manager, users) ==
    /\ ~renderers[r].live
    /\ IF pkg_manager \notin allowed_pkg_managers
       THEN /\ last' = [rid |-> r, op |-> "new", args |-> <<cls, pkg_manager, users>>,
                        raised |-> RendererError, value |-> None]
            /\ UNCHANGED <<renderers, usets, hist>>
       ELSE LET ref == IF users = None THEN r ELSE CallerSet
            IN  /\ usets' = IF users = None THEN [usets EXCEPT ![r] = {"root"}]
                            ELSE usets
                /\ renderers' = [renderers EXCEPT ![r] =
                                    [NoRenderer EXCEPT !.live = TRUE, !.cls = cls,
                                                       !.pkg_manager = pkg_manager,
                                                       !._users = ref]]
                /\ hist' = [hist EXCEPT ![r] = [users0 |-> usets'[ref], log |-> <<>>]]
                /\ last' = [rid |-> r, op |-> "new", args |-> <<cls, pkg_manager, users>>,
                            raised |-> None, value |-> None]
    /\ UNCHANGED <<srclist, calls, notRenderer>>

-----------------------------------------------------------------------------
(* renderers: the instruction methods *)

\* a run that puts its instruction before the others
run_first(rec, command_) ==
    IF rec.cls = "docker"
    THEN [rec EXCEPT !._parts = <<DockerRun(command_)>> \o @]
    ELSE [rec EXCEPT !._post = <<command_>> \o @]

\* renderer.run(command): the object after the call
run(rec, command_) ==
    IF rec.cls = "docker"
    THEN [rec EXCEPT !._parts = Append(@, DockerRun(command_))]
    ELSE [rec EXCEPT !._post = Append(@, command_)]

Arg(r, key, value) ==
    /\ Live(r)
    /\ renderers' =
          IF renderers[r].cls = "docker"
          THEN [renderers EXCEPT ![r]._parts = Append(@, DockerArg(key, value))]
          ELSE [renderers EXCEPT ![r]._post = Append(@, SingularityArg(key, value))]
    /\ Returned(r, "arg", <<key, value>>, None, "self")
    /\ UNCHANGED <<usets, srclist, notRenderer>>

\* copy(source, destination, from_, chown).  how tells what the caller hands
\* over as source: "list" is its list object, "tuple" a tuple of one path,
\* "path" one path.  SingularityRenderer.copy takes no from_ and no chown.
Copy(r, how, destination, from_, chown) ==
    /\ Live(r)
    /\ renderers[r].cls = "singularity" => from_ = None /\ chown = None
    /\ LET given == IF how = "list" THEN srclist ELSE <<"a.txt">>
       IN  IF renderers[r].cls = "docker"
           THEN IF how = "tuple"
                THEN \* source.append: a tuple has no append
                     /\ Returned(r, "copy", <<how, given, destination, from_, chown>>,
                                 AttributeError, None)
                     /\ UNCHANGED <<renderers, srclist>>
                ELSE /\ renderers' =
                           [renderers EXCEPT ![r]._parts =
                               Append(@, DockerCopy(Append(given, destination),
                                                    from_, chown))]
                     /\ srclist' = IF how = "list" THEN Append(srclist, destination)
                                   ELSE srclist
                     /\ Returned(r, "copy", <<how, given, destination, from_, chown>>,
                                 None, "self")
           ELSE /\ renderers' = [renderers EXCEPT ![r]._files =
                                    @ \o SingularityCopy(given, destination)]
                /\ srclist' = srclist
                /\ Returned(r, "copy", <<how, given, destination, from_, chown>>, None, "self")
    /\ UNCHANGED <<usets, notRenderer>>

Env(r, d) ==
    /\ Live(r)
    /\ renderers' =
          IF renderers[r].cls = "docker"
          THEN [renderers EXCEPT ![r]._parts = Append(@, DockerEnv(d))]
          ELSE [renderers EXCEPT ![r]._environment = @ \o d]
    /\ Returned(r, "env", <<d>>, None, "self")
    /\ UNCHANGED <<usets, srclist, notRenderer>>

\* from_(base_image, as_): SingularityRenderer.from_ takes no as_
From(r, base_image, as_) ==
    /\ Live(r)
    /\ renderers[r].cls = "singularity" => as_ = None
    /\ IF renderers[r].cls = "docker"
       THEN /\ renderers' = [renderers EXCEPT ![r]._parts =
                                Append(@, DockerFrom(base_image, as_))]
            /\ Returned(r, "from_", <<base_image, as_>>, None, "self")
       ELSE IF ~Contains(base_image, <<"://">>)
       THEN /\ renderers' = [renderers EXCEPT ![r]._header = <<"docker", base_image>>]
            /\ Returned(r, "from_", <<base_image, as_>>, None, "self")
       ELSE IF StartsWith(base_image, <<"docker", "://">>)
       THEN /\ renderers' = [renderers EXCEPT ![r]._header =
                                <<"docker", SubSeq(base_image, 3, Len(base_image))>>]
            /\ Returned(r, "from_", <<base_image, as_>>, None, "self")
       ELSE IF StartsWith(base_image, <<"library", "://">>)
       THEN /\ renderers' = [renderers EXCEPT ![r]._header =
                                <<"library", SubSeq(base_image, 3, Len(base_image))>>]
            /\ Returned(r, "from_", <<base_image, as_>>, None, "self")
       ELSE /\ Returned(r, "from_", <<base_image, as_>>, RendererError, None)
            /\ UNCHANGED renderers
    /\ UNCHANGED <<usets, srclist, notRenderer>>

\* install(pkgs, opts): DockerRenderer indents the command and hands it to
\* run, which indents it again behind "RUN "
Install(r, pkgs_, opts_) ==
    /\ Live(r)
    /\ LET cmd == _install(pkgs_, renderers[r].pkg_manager, opts_)
       IN  renderers' =
              [renderers EXCEPT ![r] =
                  IF @.cls = "docker" THEN run(@, _indent_run_instruction(cmd))
                  ELSE run(@, cmd)]
    /\ Returned(r, "install", <<pkgs_, opts_>>, None, "self")
    /\ UNCHANGED <<usets, srclist, notRenderer>>

Label(r, d) ==
    /\ Live(r)
    /\ renderers' =
          IF renderers[r].cls = "docker"
          THEN [renderers EXCEPT ![r]._parts = Append(@, DockerLabel(d))]
          ELSE [renderers EXCEPT ![r]._labels = DictUpdate(@, d)]
    /\ Returned(r, "label", <<d>>, None, "self")
    /\ UNCHANGED <<usets, srclist, notRenderer>>

Run(r, command_) ==
    /\ Live(r)
    /\ renderers' = [renderers EXCEPT ![r] = run(@, command_)]
    /\ Returned(r, "run", <<command_>>, None, "self")
    /\ UNCHANGED <<usets, srclist, notRenderer>>

\* _Renderer.run_bash
RunBash(r, command_) ==
    /\ Live(r)
    /\ renderers' = [renderers EXCEPT ![r] =
                        run(@, <<"bash -c", SP, "'">> \o command_ \o <<"'">>)]
    /\ Returned(r, "run_bash", <<command_>>, None, "self")
    /\ UNCHANGED <<usets, srclist, notRenderer>>

\* user(user): the set object behind self._users is read and written
User(r, user) ==
    /\ Live(r)
    /\ LET rec == renderers[r]
           known == user \in usets[rec._users]
       IN  /\ renderers' =
                 IF rec.cls = "docker"
                 THEN [renderers EXCEPT ![r]._parts =
                          (IF known THEN @ ELSE Append(@, DockerUserAdd(user)))
                          \o <<DockerUser(user)>>]
                 ELSE [renderers EXCEPT ![r]._post =
                          (IF known THEN @ ELSE Append(@, SingularityUserAdd(user)))
                          \o <<SingularityUser(user)>>]
           /\ usets' = [usets EXCEPT ![rec._users] = @ \cup {user}]
    /\ Returned(r, "user", <<user>>, None, "self")
    /\ UNCHANGED <<srclist, notRenderer>>

Workdir(r, path) ==
    /\ Live(r)
    /\ renderers' =
          IF renderers[r].cls = "docker"
          THEN [renderers EXCEPT ![r]._parts = Append(@, DockerWorkdir(path))]
          ELSE [renderers EXCEPT ![r]._post = Append(@, SingularityWorkdir(path))]
    /\ Returned(r, "workdir", <<path>>, None, "self")
    /\ UNCHANGED <<usets, srclist, notRenderer>>

\* a str() that hands the text out and forgets it
StrDraining(r) ==
    /\ Live(r)
    /\ Returned(r, "str", <<>>, None, __str__(renderers[r]))
    /\ renderers' = [renderers EXCEPT ![r]._parts = <<>>, ![r]._post = <<>>]
    /\ UNCHANGED <<usets, srclist, notRenderer>>

\* str(renderer)
Str(r) ==
    /\ Live(r)
    /\ Returned(r, "str", <<>>, None, __str__(renderers[r]))
    /\ UNCHANGED <<renderers, usets, srclist, notRenderer>>

\* renderer == other.  other is [k |-> "renderer", id |-> a renderer],
\* [k |-> "str", text |-> a str] or [k |-> "int"], an object of another type.
__eq__(rec, otherText) == rm_empty_lines(__str__(rec)) = rm_empty_lines(otherText)

Eq(r, other) ==
    /\ Live(r)
    /\ other.k = "renderer" => renderers[other.id].live
    /\ IF other.k = "int"
       THEN Returned(r, "eq", <<other>>, NotImplementedError, None)
       ELSE LET otherText == IF other.k = "renderer" THEN __str__(renderers[other.id])
                             ELSE other.text
            IN  Returned(r, "eq", <<other>>, None,
                         PyBool(__eq__(renderers[r], otherText)))
    /\ UNCHANGED <<renderers, usets, srclist, notRenderer>>

-----------------------------------------------------------------------------
(* renderers: templates handed to add_template *)

\* Template(template, binaries_kwds, source_kwds): the dict is validated and
\* deep-copied and an instance is made of every method the dict has, the one
\* that is not asked for too.  No keywords given is {}.
NewTemplate(t, binaries_kwds, source_kwds) ==
    IF _validate_template(t) # Ok THEN [status |-> TemplateError]
    ELSE LET b == IF t.binaries # Absent
                  THEN NewInstallationTemplate("binaries", t.binaries, binaries_kwds)
                  ELSE Absent
             s == IF t.source # Absent
                  THEN NewInstallationTemplate("source", t.source, source_kwds)
                  ELSE Absent
         IN  IF b # Absent /\ b.status # Ok THEN [status |-> b.status]
             ELSE IF s # Absent /\ s.status # Ok THEN [status |-> s.status]
             ELSE [status |-> Ok, _template |-> t, binaries |-> b, source |-> s]

\* hasattr(inst, name) of a template instance
HasAttr(inst, name) == name \in DirSelf(inst.kind) \cup DOMAIN inst.attrs

\* the template dicts and keywords drawn
JqBinaries ==
    [ instructions |-> InstrUrl, env |-> <<>>,
      arguments |-> [required |-> {"version"}, optional |-> {}],
      dependencies |-> NoDeps,
      urls |-> [v \in {"1.5", "1.6"} |-> IF v = "1.5" THEN Url15 ELSE Url16] ]

JqSource ==
    [ instructions |-> InstrPlain, env |-> <<>>,
      arguments |-> [required |-> {}, optional |-> {}],
      dependencies |-> NoDeps, urls |-> Absent ]

JqTemplates ==
    { [name |-> "jq", binaries |-> JqBinaries, source |-> Absent, schema_ok |-> TRUE],
      [name |-> "jq", binaries |-> JqBinaries, source |-> JqSource, schema_ok |-> TRUE] }

Version15 == [n \in {"version"} |-> StrVal("1.5")]

Version16 == [n \in {"version"} |-> StrVal("1.6")]

\* what the caller hands to add_template as template: a Template it has
\* constructed, or a plain dict
TemplateArgs ==
    { [isTemplate |-> TRUE, obj |-> NewTemplate(t, Version16, <<>>)] : t \in JqTemplates }
    \cup { [isTemplate |-> TRUE,
            obj |-> NewTemplate(CHOOSE t \in JqTemplates : t.source = Absent,
                                Version15, <<>>)] }
    \cup { [isTemplate |-> FALSE,
            obj |-> CHOOSE t \in JqTemplates : t.source = Absent] }

MethodArgs == {"binaries", "source", "conda"}

\* _render_string_from_template: source.replace("self.", "template.")
ReplaceSelf(source) ==
    [i \in 1..Len(source) |-> IF source[i] = "self." THEN "template." ELSE source[i]]

\* index of the first "}}" of s from i on, 0 when there is none
RECURSIVE FirstClose(_, _)
FirstClose(s, i) ==
    IF i > Len(s) THEN 0 ELSE IF s[i] = "}}" THEN i ELSE FirstClose(s, i + 1)

\* jinja2 with StrictUndefined: the value of an expression (its atoms, blanks
\* apart) for template=inst.  Of the expressions drawn: an attribute set from
\* a keyword, a call of such an attribute (the callable str drawn returns
\* None), urls[version], and names the instance lacks (install_dependencies
\* among them, unless a keyword of that name is bound), which are undefined.
Evaluate(expr, inst) ==
    IF Len(expr) = 2 /\ expr[1] = "template." /\ expr[2] \in DOMAIN inst.attrs
    THEN [ok |-> TRUE, text |-> <<inst.attrs[expr[2]]>>]
    ELSE IF /\ Len(expr) = 4 /\ expr[1] = "template." /\ expr[3] = "(" /\ expr[4] = ")"
            /\ expr[2] \in inst.callables
    THEN [ok |-> TRUE, text |-> <<"None">>]
    ELSE IF /\ expr = <<"template.", "urls", "[", "template.", "version", "]">>
            /\ inst.kind = "binaries"
            /\ "version" \in DOMAIN inst.attrs
            /\ inst.attrs["version"] \in DOMAIN inst._template.urls
         THEN [ok |-> TRUE, text |-> inst._template.urls[inst.attrs["version"]]]
         ELSE [ok |-> FALSE, text |-> <<>>]

\* tmpl.render(template=inst): text outside {{ }} is copied, every expression
\* is replaced by its value, and the first undefined one ends the rendering
RECURSIVE Render(_, _)
Render(s, inst) ==
    IF s = <<>> THEN [ok |-> TRUE, text |-> <<>>]
    ELSE IF s[1] = "{{" /\ FirstClose(s, 1) > 0
         THEN LET close == FirstClose(s, 1)
                  v == Evaluate(SelectSeq(SubSeq(s, 2, close - 1),
                                          LAMBDA c : ~IsSpace(c)), inst)
                  rest == Render(SubSeq(s, close + 1, Len(s)), inst)
              IN  IF v.ok /\ rest.ok THEN [ok |-> TRUE, text |-> v.text \o rest.text]
                  ELSE [ok |-> FALSE, text |-> <<>>]
         ELSE LET rest == Render(Tail(s), inst)
              IN  IF rest.ok THEN [ok |-> TRUE, text |-> <<s[1]>> \o rest.text]
                  ELSE rest

\* jinja2.exceptions.UndefinedError becomes RendererError("A template included
\* in this renderer raised an error. ...")
_render_string_from_template(source, inst) ==
    LET r == Render(ReplaceSelf(source), inst)
    IN  IF r.ok THEN [raised |-> None, text |-> r.text]
        ELSE [raised |-> RendererError, text |-> <<>>]

\* _BaseInstallationTemplate.dependencies(pkg_manager)
dependencies(inst, pkg_manager) ==
    IF pkg_manager \notin allowed_pkg_managers
    THEN [raised |-> ValueError, value |-> <<>>]
    ELSE IF inst._template.dependencies = Absent THEN [raised |-> None, value |-> <<>>]
    ELSE [raised |-> None, value |-> inst._template.dependencies[pkg_manager]]

_apt_install_debs(urls) ==
    LET install_one(url) ==
            <<"_reproenv_tmppath=", "\"", "$(mktemp -t tmp.XXXXXXXXXX.deb)", "\"", NL,
              "curl", SP, "-fsSL", SP, "--retry", SP, "5", SP, "-o", SP,
              "\"", "${_reproenv_tmppath}", "\"", SP>> \o url
            \o <<NL, "apt-get install --yes", SP, "-q", SP,
                 "\"", "${_reproenv_tmppath}", "\"", NL,
                 "rm", SP, "\"", "${_reproenv_tmppath}", "\"">>
        sorted == Sorted(urls)
    IN  Join(<<NL>>, [i \in 1..Len(sorted) |-> install_one(sorted[i])])
        \o <<NL, "apt-get update -qq", NL,
             "apt-get install --yes --quiet --fix-missing", NL,
             "rm -rf /var/lib/apt/lists/*">>

\* renderer.env(**d): the object after the call
env(rec, d) ==
    IF rec.cls = "docker"
    THEN [rec EXCEPT !._parts = Append(@, DockerEnv(d))]
    ELSE [rec EXCEPT !._environment = @ \o d]

\* add_template up to the call template_method.validate_kwds(): what it
\* raises, None when the call returns.  No instance has a method of that name
\* (the method is _validate_kwds); the attribute exists only when a keyword of
\* that name was bound, and the call returns only when its value is callable.
add_template(targ, method) ==
    IF ~targ.isTemplate THEN RendererError
    ELSE IF method \notin allowed_installation_methods THEN RendererError
    ELSE IF targ.obj[method] = Absent THEN RendererError
    ELSE IF ~HasAttr(targ.obj[method], "validate_kwds") THEN AttributeError
    ELSE IF "validate_kwds" \notin targ.obj[method].callables THEN "TypeError"
    ELSE None

\* add_template behind that call: env is rendered and applied, then the
\* command is put together from the dependencies and the rendered instructions
\* and run.  An exception leaves what was applied before it.
Merge(rec, inst) ==
    LET e == inst._template.env
        ks == [i \in 1..Len(e) |-> _render_string_from_template(<<e[i][1]>>, inst)]
        vs == [i \in 1..Len(e) |-> _render_string_from_template(<<e[i][2]>>, inst)]
        rec1 == IF e = <<>> THEN rec
                ELSE env(rec, [i \in 1..Len(e) |-> <<ks[i].text[1], vs[i].text[1]>>])
        deps == dependencies(inst, rec.pkg_manager)
        debs == dependencies(inst, "debs")
        body == _render_string_from_template(inst._template.instructions, inst)
        head == IF deps.value = <<>> THEN <<>>
                ELSE _install(deps.value, rec.pkg_manager, None)
                     \o (IF rec.pkg_manager = "apt" /\ debs.value # <<>>
                         THEN <<NL>> \o _apt_install_debs(debs.value)
                         ELSE <<>>)
                     \o <<NL>>
    IN  IF \E i \in 1..Len(e) : ks[i].raised # None \/ vs[i].raised # None
        THEN [rec |-> rec, raised |-> RendererError]
        ELSE IF inst._template.instructions = <<>> THEN [rec |-> rec1, raised |-> None]
        ELSE IF deps.raised # None THEN [rec |-> rec1, raised |-> deps.raised]
        ELSE IF deps.value # <<>> /\ rec.pkg_manager = "apt" /\ debs.raised # None
             THEN [rec |-> rec1, raised |-> debs.raised]
        ELSE IF body.raised # None THEN [rec |-> rec1, raised |-> body.raised]
        ELSE [rec |-> run(rec1, head \o body.text), raised |-> None]

\* add_template(template, method)
AddTemplate(r, targ, method) ==
    /\ Live(r)
    /\ \E err \in {add_template(targ, method)} :
          IF err # None
          THEN /\ Returned(r, "add_template", <<targ, method>>, err, None)
               /\ UNCHANGED renderers
          ELSE \E m \in {Merge(renderers[r], targ.obj[method])} :
                  /\ renderers' = [renderers EXCEPT ![r] = m.rec]
                  /\ Returned(r, "add_template", <<targ, method>>, m.raised,
                              IF m.raised = None THEN "self" ELSE None)
    /\ UNCHANGED <<usets, srclist, notRenderer>>

-----------------------------------------------------------------------------
(* renderers: the calls drawn *)

Images ==
    { <<"alpine">>, <<"docker", "://", "alpine">>, <<"library", "://", "alpine">>,
      <<"shub", "://", "alpine">> }

Commands ==
    { <<"echo", SP, "foobar">>,
      <<"echo", SP, "hi", NL, "#", SP, "note", NL, NL, "echo", SP, "bye">> }

\* a command with an if block, a word that begins with "fi", a continued line
\* and a line that begins with an operator
BlockCommand ==
    <<"echo", SP, "hi", NL, "if", SP, "true", NL, "then", SP, "echo", SP, "y", NL,
      "fi", NL, "find", SP, ".", NL, "echo", SP, "a", SP, BS, NL, "b", NL,
      "|", SP, "wc">>

EnvDicts == { <<<<"FOO", "bar">>, <<"BAZ", "qux">>>> }

LabelDicts == { <<<<"ORG", "x">>>>, <<<<"VER", "1">>, <<"ORG", "y">>>> }

\* source, from_ and chown of the copy calls
CopyArgs ==
    { <<"list", None, None>>, <<"tuple", None, None>>, <<"path", None, None>>,
      <<"path", "builder", "neuro">> }

\* the Template of version 1.6 with binaries only for every method name, a
\* Template with both methods for "source", the Template of version 1.5 and
\* a dict for "binaries"
AddTemplateArgs ==
    { a \in TemplateArgs \X MethodArgs :
         \/ a[1].isTemplate /\ a[1].obj.source = Absent
            /\ (a[1].obj.binaries.attrs["version"] = "1.6" \/ a[2] = "binaries")
         \/ a[1].isTemplate /\ a[2] = "source" /\ a[1].obj.source # Absent
         \/ ~a[1].isTemplate /\ a[2] = "binaries" }

\* recipes with env and optional arguments validate_kwds and
\* install_dependencies: one with
\* dependencies of every kind and the marker in its instructions, one whose
\* instructions name an attribute no instance has, one with plain
\* instructions
FoobarBinaries ==
    [ instructions |-> InstrMarker, env |-> <<<<"foo", "bar">>>>,
      arguments |-> [required |-> {}, optional |-> {"validate_kwds", "install_dependencies"}],
      dependencies |-> [apt |-> <<<<"curl">>>>, debs |-> <<<<"a", "-", "2">>>>,
                        yum |-> <<<<"python">>>>],
      urls |-> [v \in {"1.0.0"} |-> <<"foobar">>] ]

FoobarUndefined ==
    [ FoobarBinaries EXCEPT
        !.instructions = <<"echo", SP, "{{", SP, "self.", "foo", SP, "}}">>,
        !.dependencies = NoDeps ]

FoobarPlain ==
    [ FoobarBinaries EXCEPT !.instructions = InstrPlain, !.dependencies = NoDeps ]

FoobarTemplates ==
    { [name |-> "foobar", binaries |-> b, source |-> Absent, schema_ok |-> TRUE] :
         b \in {FoobarBinaries, FoobarUndefined, FoobarPlain} }

\* the keywords of the foobar Templates: none, validate_kwds bound to a
\* callable str, or install_dependencies as well
FoobarKwds ==
    { <<>>, [n \in {"validate_kwds"} |-> CallableStr("x")],
      [n \in {"validate_kwds", "install_dependencies"} |-> CallableStr("x")] }

\* the merges drawn: every foobar Template by "binaries", one by the method
\* it lacks, one by a method that does not exist, and a dict
MergeArgs ==
    { <<[isTemplate |-> TRUE, obj |-> NewTemplate(tk[1], tk[2], <<>>)], "binaries">> :
         tk \in { x \in FoobarTemplates \X FoobarKwds :
                     "install_dependencies" \in DOMAIN x[2] =>
                        x[1].binaries = FoobarBinaries } }
    \cup { <<[isTemplate |-> TRUE,
              obj |-> NewTemplate(CHOOSE t \in FoobarTemplates :
                                     t.binaries = FoobarPlain, <<>>, <<>>)], m>> :
              m \in {"source", "conda"} }
    \cup { <<[isTemplate |-> FALSE,
              obj |-> CHOOSE t \in FoobarTemplates : t.binaries = FoobarPlain],
             "binaries">> }

\* what a renderer is compared with: itself, an int, a text
Others(text) == {[k |-> "renderer", id |-> 1], [k |-> "int"], [k |-> "str", text |-> text]}

Within(n) == calls < n

\* one DockerRenderer, every method
NextDocker ==
    \/ \E pm \in {"apt", "foo"} : New(1, "docker", pm, None)
    \/ Within(MaxCalls) /\ \E value \in {None, "bar"} : Arg(1, "FOO", value)
    \/ Within(MaxCalls) /\ \E a \in CopyArgs : Copy(1, a[1], "/opt/", a[2], a[3])
    \/ Within(MaxCalls) /\ \E d \in EnvDicts : Env(1, d)
    \/ Within(MaxCalls) /\ \E as_ \in {None, "builder"} : From(1, <<"alpine">>, as_)
    \/ Within(MaxCalls) /\ Install(1, <<<<"b">>, <<"a">>>>, None)
    \/ Within(MaxCalls) /\ \E d \in LabelDicts : Label(1, d)
    \/ Within(MaxCalls) /\ \E c \in Commands \cup {BlockCommand} : Run(1, c)
    \/ Within(MaxCalls) /\ RunBash(1, <<"source", SP, "activate">>)
    \/ Within(MaxCalls) /\ \E u \in {"root", "bob"} : User(1, u)
    \/ Within(MaxCalls) /\ Workdir(1, "/opt/")
    \/ Within(MaxCalls) /\ Str(1)
    \/ Within(MaxCalls)
       /\ \E other \in Others(<<"FROM", SP, "alpine", NL, NL, "#", SP, "note">>) :
             Eq(1, other)
    \/ Within(MaxCalls) /\ \E a \in AddTemplateArgs : AddTemplate(1, a[1], a[2])

\* one SingularityRenderer, every method
NextSingularity ==
    \/ \E pm \in {"yum", "foo"} : New(1, "singularity", pm, None)
    \/ Within(MaxCalls) /\ \E value \in {None, "bar"} : Arg(1, "FOO", value)
    \/ Within(MaxCalls) /\ \E how \in {"list", "path"} :
                              Copy(1, how, "/opt/", None, None)
    \/ Within(MaxCalls) /\ \E d \in EnvDicts : Env(1, d)
    \/ Within(MaxCalls) /\ \E img \in Images : From(1, img, None)
    \/ Within(MaxCalls) /\ Install(1, <<<<"b">>, <<"a">>>>, None)
    \/ Within(MaxCalls) /\ \E d \in LabelDicts : Label(1, d)
    \/ Within(MaxCalls) /\ \E c \in Commands : Run(1, c)
    \/ Within(MaxCalls) /\ RunBash(1, <<"source", SP, "activate">>)
    \/ Within(MaxCalls) /\ \E u \in {"root", "bob"} : User(1, u)
    \/ Within(MaxCalls) /\ Workdir(1, "/opt/")
    \/ Within(MaxCalls) /\ Str(1)
    \/ Within(MaxCalls)
       /\ \E other \in Others(<<"Bootstrap:", SP, "docker", NL, "#", SP, "note", NL,
                                "From:", SP, "alpine">>) \ {[k |-> "int"]} :
             Eq(1, other)
    \/ Within(MaxCalls)
       /\ \E a \in {b \in AddTemplateArgs : b[1].isTemplate /\ b[2] = "binaries"} :
             AddTemplate(1, a[1], a[2])

\* two renderers, each with a set of its own or with the caller's set
PairCommands == { <<"echo", SP, "hi">>, <<"#", SP, "note", NL, "echo", SP, "hi">> }

PairText == <<"%post", NL, NL, "echo", SP, "hi", NL>>

NextPair ==
    \/ \E r \in RendIds, cls \in {"docker", "singularity"}, users \in {None, "caller"} :
          New(r, cls, "apt", users)
    \/ \E r \in RendIds : New(r, "docker", "foo", None)
    \/ Within(MaxPairCalls) /\ \E r \in RendIds, u \in {"root", "bob"} : User(r, u)
    \/ Within(MaxPairCalls) /\ \E r \in RendIds, c \in PairCommands : Run(r, c)
    \/ Within(MaxPairCalls) /\ \E r \in RendIds : Str(r)
    \/ Within(MaxPairCalls)
       /\ \E r \in RendIds :
             \E other \in {[k |-> "renderer", id |-> o] : o \in RendIds \ {r}}
                          \cup {[k |-> "str", text |-> PairText]} :
                Eq(r, other)

-----------------------------------------------------------------------------
(* renderers built from registered templates and from dicts *)

\* the classes below TemplateError (exceptions.py); TemplateNotFound is not
\* one of them, its base is ReproEnvError
IsTemplateError(e) == e \in {TemplateError, TemplateKeywordArgumentError}

\* the keys of a registered template dict
TemplateKeys(t) == {"name"} \cup {m \in {"binaries", "source"} : t[m] # Absent}

\* a resolution of the method that prefers source
DefaultMethodSourceFirst(template_dict) ==
    IF "source" \in TemplateKeys(template_dict) THEN "source" ELSE "binaries"

\* the method add_registered_template takes when none is given
DefaultMethod(template_dict) ==
    IF "binaries" \in TemplateKeys(template_dict) THEN "binaries" ELSE "source"

\* a Template(...) call whose keyword errors are dropped
LenientTemplate(t, binaries_kwds, source_kwds) ==
    [status |-> Ok, _template |-> t, binaries |-> Absent, source |-> Absent]

\* Template(template=template_dict, binaries_kwds=..., source_kwds=...) as
\* add_registered_template calls it
RegisteredTemplate(t, binaries_kwds, source_kwds) ==
    NewTemplate(t, binaries_kwds, source_kwds)

\* add_registered_template(name, method, **kwds) with the registry reg: the
\* statement the call ends at, what it raises there and the method resolved
add_registered_template(reg, name, method, kwds_) ==
    IF Lower(name) \notin DOMAIN reg
    THEN [at |-> "get", raised |-> TemplateNotFound, method |-> method]
    ELSE LET template_dict == reg[Lower(name)]
             m == IF method = None THEN DefaultMethod(template_dict) ELSE method
         IN  IF m \notin TemplateKeys(template_dict)
             THEN [at |-> "method", raised |-> RendererError, method |-> m]
             ELSE LET tpl == RegisteredTemplate(template_dict,
                                IF m = "binaries" THEN kwds_ ELSE <<>>,
                                IF m = "source" THEN kwds_ ELSE <<>>)
                  IN  IF tpl.status # Ok
                      THEN [at |-> "Template", raised |-> tpl.status, method |-> m]
                      ELSE [at |-> "add_template",
                            raised |-> add_template([isTemplate |-> TRUE, obj |-> tpl], m),
                            method |-> m]

AddRegisteredTemplate(r, name, method, kwds_) ==
    /\ Live(r)
    /\ LET a == add_registered_template(_templates, name, method, kwds_)
       IN  Returned(r, "add_registered_template", <<name, method, kwds_>>, a.raised,
                    [at |-> a.at, method |-> a.method])
    /\ UNCHANGED <<renderers, usets, srclist, notRenderer>>

\* _validate_renderer(d): the schema gate from_dict calls first
_validate_renderer(d) == IF d.schema_ok THEN Ok ELSE RendererError

\* the instruction methods getattr(renderer, name, None) finds
InstructionMethods ==
    { "arg", "copy", "env", "from_", "install", "label", "run", "run_bash", "user",
      "workdir" }

\* what else getattr(renderer, name, None) finds, of the names drawn: the
\* property users, the attribute pkg_manager and the other methods (private
\* and dunder names are found as well)
OtherAttributes ==
    { "users", "pkg_manager", "from_dict", "add_template", "add_registered_template" }

\* the method and the other keywords of the kwds of a template instruction
KwMethod(kwds_) == IF "method" \in DOMAIN kwds_ THEN kwds_["method"].v ELSE None
KwRest(kwds_) == [n \in DOMAIN kwds_ \ {"method"} |-> kwds_[n]]

\* the parameters of the instruction methods that take named parameters:
\* those without a default and those with one
Params(cls, name) ==
    CASE name = "arg" -> [req |-> {"key"}, opt |-> {"value"}]
      [] name = "copy" ->
            [req |-> {"source", "destination"},
             opt |-> IF cls = "docker" THEN {"from_", "chown"} ELSE {}]
      [] name = "from_" ->
            [req |-> {"base_image"}, opt |-> IF cls = "docker" THEN {"as_"} ELSE {}]
      [] name = "install" -> [req |-> {"pkgs"}, opt |-> {"opts"}]
      [] name \in {"run", "run_bash"} -> [req |-> {"command"}, opt |-> {}]
      [] name = "user" -> [req |-> {"user"}, opt |-> {}]
      [] name = "workdir" -> [req |-> {"path"}, opt |-> {}]

\* the value of a keyword, None (the default) when it is not given
Kw(kwds_, n) == IF n \in DOMAIN kwds_ THEN kwds_[n] ELSE None

\* SingularityRenderer.from_: the header for a base image, Absent when the
\* bootstrap source is not supported
SingularityFrom(base_image) ==
    IF ~Contains(base_image, <<"://">>) THEN <<"docker", base_image>>
    ELSE IF StartsWith(base_image, <<"docker", "://">>)
    THEN <<"docker", SubSeq(base_image, 3, Len(base_image))>>
    ELSE IF StartsWith(base_image, <<"library", "://">>)
    THEN <<"library", SubSeq(base_image, 3, Len(base_image))>>
    ELSE Absent

\* this_instance_method(**kwds) for an instruction method: the renderer and
\* its set of users after the call, and what the call raises.  env and label
\* take any keywords (an ordered dict, a sequence of pairs); copy gets a list
\* as source.
Call(rec, users, name, kwds_) ==
    LET done(rec2) == [rec |-> rec2, users |-> users, raised |-> None]
        fails(e) == [rec |-> rec, users |-> users, raised |-> e]
        docker == rec.cls = "docker"
    IN  IF name = "env" THEN done(env(rec, kwds_))
        ELSE IF name = "label"
        THEN done(IF docker THEN [rec EXCEPT !._parts = Append(@, DockerLabel(kwds_))]
                  ELSE [rec EXCEPT !._labels = DictUpdate(@, kwds_)])
        ELSE IF \/ Params(rec.cls, name).req \ DOMAIN kwds_ # {}
                \/ DOMAIN kwds_ \ (Params(rec.cls, name).req
                                    \cup Params(rec.cls, name).opt) # {}
        THEN fails("TypeError")
        ELSE CASE name = "arg" ->
                    done(IF docker
                         THEN [rec EXCEPT !._parts =
                                  Append(@, DockerArg(kwds_["key"], Kw(kwds_, "value")))]
                         ELSE [rec EXCEPT !._post =
                                  Append(@, SingularityArg(kwds_["key"],
                                                          Kw(kwds_, "value")))])
               [] name = "copy" ->
                    done(IF docker
                         THEN [rec EXCEPT !._parts =
                                  Append(@, DockerCopy(Append(kwds_["source"],
                                                              kwds_["destination"]),
                                                       Kw(kwds_, "from_"),
                                                       Kw(kwds_, "chown")))]
                         ELSE [rec EXCEPT !._files =
                                  @ \o SingularityCopy(kwds_["source"],
                                                       kwds_["destination"])])
               [] name = "from_" ->
                    IF docker
                    THEN done([rec EXCEPT !._parts =
                                  Append(@, DockerFrom(kwds_["base_image"],
                                                       Kw(kwds_, "as_")))])
                    ELSE IF SingularityFrom(kwds_["base_image"]) = Absent
                    THEN fails(RendererError)
                    ELSE done([rec EXCEPT !._header =
                                  SingularityFrom(kwds_["base_image"])])
               [] name = "install" ->
                    done(IF docker
                         THEN run(rec, _indent_run_instruction(
                                          _install(kwds_["pkgs"], rec.pkg_manager,
                                                   Kw(kwds_, "opts"))))
                         ELSE run(rec, _install(kwds_["pkgs"], rec.pkg_manager,
                                                Kw(kwds_, "opts"))))
               [] name = "run" -> done(run(rec, kwds_["command"]))
               [] name = "run_bash" ->
                    done(run(rec, <<"bash -c", SP, "'">> \o kwds_["command"]
                                  \o <<"'">>))
               [] name = "user" ->
                    [rec |-> IF docker
                             THEN [rec EXCEPT !._parts =
                                      (IF kwds_["user"] \in users THEN @
                                       ELSE Append(@, DockerUserAdd(kwds_["user"])))
                                      \o <<DockerUser(kwds_["user"])>>]
                             ELSE [rec EXCEPT !._post =
                                      (IF kwds_["user"] \in users THEN @
                                       ELSE Append(@, SingularityUserAdd(kwds_["user"])))
                                      \o <<SingularityUser(kwds_["user"])>>],
                     users |-> users \cup {kwds_["user"]},
                     raised |-> None]
               [] name = "workdir" ->
                    done(IF docker
                         THEN [rec EXCEPT !._parts =
                                  Append(@, DockerWorkdir(kwds_["path"]))]
                         ELSE [rec EXCEPT !._post =
                                  Append(@, SingularityWorkdir(kwds_["path"]))])

\* one pass of the loop of from_dict over a mapping, on the renderer st.rec
\* with the users st.users: the renderer and the users after it, what the
\* pass raises and the error it was raised from
ApplyInstruction(reg, st, mapping) ==
    IF mapping.name \in InstructionMethods
    THEN LET c == Call(st.rec, st.users, mapping.name, mapping.kwds)
         IN  IF c.raised = None
             THEN [rec |-> c.rec, users |-> c.users, raised |-> None, cause |-> None]
             ELSE [rec |-> st.rec, users |-> st.users, raised |-> RendererError,
                   cause |-> c.raised]
    ELSE IF mapping.name \in OtherAttributes
    THEN \* a set and a str are not callable, and the kwds drawn lack the
         \* arguments from_dict, add_template and add_registered_template take
         [rec |-> st.rec, users |-> st.users, raised |-> RendererError,
          cause |-> "TypeError"]
    ELSE LET a == add_registered_template(reg, mapping.name, KwMethod(mapping.kwds),
                                          KwRest(mapping.kwds))
         IN  IF IsTemplateError(a.raised)
             THEN [rec |-> st.rec, users |-> st.users, raised |-> RendererError,
                   cause |-> a.raised]
             ELSE [rec |-> st.rec, users |-> st.users, raised |-> a.raised,
                   cause |-> None]

\* a loop that takes the mappings last first
RECURSIVE ApplyAllLastFirst(_, _, _, _)
ApplyAllLastFirst(reg, st, instructions, i) ==
    IF i > Len(instructions)
    THEN [rec |-> st.rec, users |-> st.users, raised |-> None, cause |-> None, at |-> 0]
    ELSE LET a == ApplyInstruction(reg, st, instructions[Len(instructions) + 1 - i])
         IN  IF a.raised # None
             THEN [rec |-> a.rec, users |-> a.users, raised |-> a.raised,
                   cause |-> a.cause, at |-> Len(instructions) + 1 - i]
             ELSE ApplyAllLastFirst(reg, [rec |-> a.rec, users |-> a.users],
                                    instructions, i + 1)

RECURSIVE ApplyAll(_, _, _, _)
ApplyAll(reg, st, instructions, i) ==
    IF i > Len(instructions)
    THEN [rec |-> st.rec, users |-> st.users, raised |-> None, cause |-> None, at |-> 0]
    ELSE LET a == ApplyInstruction(reg, st, instructions[i])
         IN  IF a.raised # None
             THEN [rec |-> a.rec, users |-> a.users, raised |-> a.raised,
                   cause |-> a.cause, at |-> i]
             ELSE ApplyAll(reg, [rec |-> a.rec, users |-> a.users], instructions, i + 1)

\* cls.from_dict(d), its result bound to r.  existing_users is absent from
\* the dicts drawn, so the new renderer makes its own set.
FromDict(r, cls, d) ==
    /\ ~Live(r)
    /\ \E a \in { IF _validate_renderer(d) # Ok
                  THEN [rec |-> NoRenderer, users |-> {},
                        raised |-> _validate_renderer(d), cause |-> None, at |-> 0]
                  ELSE IF d.pkg_manager \notin allowed_pkg_managers
                  THEN [rec |-> NoRenderer, users |-> {}, raised |-> RendererError,
                        cause |-> None, at |-> 0]
                  ELSE ApplyAll(_templates,
                                [rec |-> [NoRenderer EXCEPT !.live = TRUE, !.cls = cls,
                                                            !.pkg_manager = d.pkg_manager,
                                                            !._users = r],
                                 users |-> {"root"}],
                                d.instructions, 1) } :
          \E e \in { [op |-> "from_dict", args |-> <<cls, d>>, raised |-> a.raised,
                      value |-> [cause |-> a.cause, at |-> a.at]] } :
             /\ renderers' = IF a.raised = None THEN [renderers EXCEPT ![r] = a.rec]
                             ELSE renderers
             /\ usets' = IF a.raised = None THEN [usets EXCEPT ![r] = a.users]
                         ELSE usets
             /\ hist' = [hist EXCEPT ![r] = [users0 |-> {"root"}, log |-> <<e>>]]
             /\ last' = [rid |-> r, op |-> e.op, args |-> e.args, raised |-> e.raised,
                          value |-> e.value]
             /\ calls' = calls + 1
    /\ UNCHANGED <<srclist, notRenderer>>

\* the templates registered: jq with binaries, with both methods, with source
SourceOnly == [name |-> "jq", binaries |-> Absent, source |-> JqSource, schema_ok |-> TRUE]

\* jq whose two methods each require version
BothRequire ==
    [name |-> "jq", binaries |-> JqBinaries,
     source |-> [JqSource EXCEPT !.arguments.required = {"version"}],
     schema_ok |-> TRUE]

RegisteredTemplates == JqTemplates \cup {SourceOnly, BothRequire}

Version99 == [n \in {"version"} |-> StrVal("9.9")]

\* name, method and keywords of the add_registered_template calls
AddRegisteredArgs ==
    { <<"jq", None, Version16>>, <<"JQ", "binaries", Version16>>,
      <<"jq", "source", <<>>>>, <<"jq", None, <<>>>>, <<"jq", None, Version99>>,
      <<"jq", "binaries", [n \in {"flavor"} |-> StrVal("x")]>>,
      <<"fsl", None, <<>>>> }

\* the mappings of the instructions of a dict
RunMapping == [name |-> "run", kwds |-> [n \in {"command"} |-> <<"echo", SP, "foobar">>]]

Mappings ==
    { RunMapping,
      [name |-> "run", kwds |-> [n \in {"cmd"} |-> <<"echo", SP, "foobar">>]],
      [name |-> "jq", kwds |-> Version16],
      [name |-> "jq", kwds |-> Version99],
      [name |-> "jq", kwds |-> [n \in {"method"} |-> StrVal("source")]],
      [name |-> "fsl", kwds |-> <<>>],
      [name |-> "users", kwds |-> <<>>] }

\* the dicts handed to from_dict
RendererDicts ==
    { [pkg_manager |-> "apt", schema_ok |-> TRUE, instructions |-> i] :
         i \in {<<>>, <<RunMapping>>} \cup {<<RunMapping, m>> : m \in Mappings} }
    \cup { [pkg_manager |-> "apt", schema_ok |-> FALSE, instructions |-> <<>>] }

MaxRegCalls == 2

\* one renderer made by its class, one made by from_dict, and the registry
NextRegistered ==
    \/ \E name \in {"jq", "users"} : Register(name, "dict")
    \/ Reset
    \/ \E cls \in {"docker", "singularity"} : New(1, cls, "apt", None)
    \/ Within(MaxRegCalls) /\ Run(1, <<"echo", SP, "foobar">>)
    \/ Within(MaxRegCalls) /\ User(1, "bob")
    \/ Within(MaxRegCalls)
       /\ \E a \in AddRegisteredArgs : AddRegisteredTemplate(1, a[1], a[2], a[3])
    \/ Within(MaxRegCalls) /\ \E d \in RendererDicts : FromDict(2, "docker", d)


-----------------------------------------------------------------------------
(* the registry alone: different templates under the same and other names *)

\* a valid template with binaries, a valid one with source, one the schema
\* refuses, one whose source has dependencies that are never installed
RegistryTemplates ==
    { [name |-> "jq", binaries |-> JqBinaries, source |-> Absent, schema_ok |-> TRUE],
      [name |-> "jq", binaries |-> Absent, source |-> JqSource, schema_ok |-> TRUE],
      [name |-> "jq", binaries |-> Absent, source |-> Absent, schema_ok |-> FALSE],
      [name |-> "jq", binaries |-> Absent,
       source |-> [JqSource EXCEPT !.dependencies.apt = <<<<"a">>>>],
       schema_ok |-> TRUE] }

NextRegistry ==
    \/ \E name \in RegistryNames, how \in {"dict", "nofile"}, t \in RegistryTemplates :
          RegisterTemplate(name, how, t)
    \/ Reset
    \/ \E name \in RegistryNames : Get(name)
    \/ Keys


-----------------------------------------------------------------------------
-----------------------------------------------------------------------------
(* merges: the calls drawn *)

MaxMergeCalls == 3

\* one renderer of either class and package manager, with fragments applied
\* before and between the merges
NextMerge ==
    \/ \E cls \in {"docker", "singularity"}, pm \in {"apt", "yum"} :
          New(1, cls, pm, None)
    \/ Within(MaxMergeCalls) /\ Run(1, <<"echo", SP, "foobar">>)
    \/ Within(MaxMergeCalls) /\ \E a \in MergeArgs : AddTemplate(1, a[1], a[2])
    \/ Within(MaxMergeCalls) /\ Str(1)


-----------------------------------------------------------------------------
-----------------------------------------------------------------------------
(* from_dict and the direct calls: the calls drawn *)

\* instruction records, one per method drawn, and one that from_ of a
\* SingularityRenderer refuses (a tuple: their kwds are not of one kind)
BuiltinMappings ==
    << RunMapping,
       [name |-> "arg", kwds |-> [n \in {"key"} |-> "FOO"]],
       [name |-> "env", kwds |-> <<<<"FOO", "bar">>, <<"BAZ", "qux">>>>],
       [name |-> "from_", kwds |-> [n \in {"base_image"} |-> <<"alpine">>]],
       [name |-> "from_", kwds |-> [n \in {"base_image"} |-> <<"shub", "://", "alpine">>]],
       [name |-> "user", kwds |-> [n \in {"user"} |-> "bob"]],
       [name |-> "workdir", kwds |-> [n \in {"path"} |-> "/opt/"]] >>

\* the dict of the records numbered in picks
BuiltinDict(picks) ==
    [pkg_manager |-> "apt", schema_ok |-> TRUE,
     instructions |-> [i \in 1..Len(picks) |-> BuiltinMappings[picks[i]]]]

\* lists of up to two records
BuiltinPicks ==
    {<<>>} \cup {<<i>> : i \in 1..Len(BuiltinMappings)}
    \cup ((1..Len(BuiltinMappings)) \X (1..Len(BuiltinMappings)))

MaxDictCalls == 3

\* renderer 1 is made by its class and takes direct calls, renderer 2 is made
\* by from_dict
NextFromDict ==
    \/ \E cls \in {"docker", "singularity"} : New(1, cls, "apt", None)
    \/ Within(MaxDictCalls) /\ Arg(1, "FOO", None)
    \/ Within(MaxDictCalls) /\ \E d \in EnvDicts : Env(1, d)
    \/ Within(MaxDictCalls)
       /\ \E img \in {<<"alpine">>, <<"shub", "://", "alpine">>} : From(1, img, None)
    \/ Within(MaxDictCalls) /\ Run(1, <<"echo", SP, "foobar">>)
    \/ Within(MaxDictCalls) /\ User(1, "bob")
    \/ Within(MaxDictCalls) /\ Workdir(1, "/opt/")
    \/ Within(MaxDictCalls)
       /\ \E cls \in {"docker", "singularity"}, picks \in BuiltinPicks :
             FromDict(2, cls, BuiltinDict(picks))


-----------------------------------------------------------------------------
(* specifications *)

\* the install-command synthesizers
InitInstall == InstallInputs /\ ValidationIdle /\ InstanceIdle /\ RendererIdle
SpecInstall == InitInstall /\ [][NextInstall]_vars

\* template validation and the registry
InitValidation == ValidationInputs /\ InstallIdle /\ InstanceIdle /\ RendererIdle
SpecValidation == InitValidation /\ [][NextValidation]_vars

\* template instances
InitInstance == InstanceInputs /\ InstallIdle /\ ValidationIdle /\ RendererIdle
SpecInstance == InitInstance /\ [][NextInstance]_vars

\* one renderer and its methods
InitRenderer == RendererInputs /\ InstallIdle /\ ValidationIdle /\ InstanceIdle
SpecDocker == InitRenderer /\ [][NextDocker]_vars
SpecSingularity == InitRenderer /\ [][NextSingularity]_vars

\* two renderers
SpecPair == InitRenderer /\ [][NextPair]_vars

\* one renderer and the merges of recipe instances
SpecMerge == InitRenderer /\ [][NextMerge]_vars

\* one renderer made by direct calls and one made by from_dict
SpecFromDict == InitRenderer /\ [][NextFromDict]_vars

InitRegistered ==
    /\ template \in RegisteredTemplates
    /\ _templates = <<>>
    /\ outcome = [op |-> None]
    /\ registered = <<>>
    /\ RendererInputs /\ InstallIdle /\ InstanceIdle
SpecRegistered == InitRegistered /\ [][NextRegistered]_vars

InitRegistry ==
    /\ template \in RegistryTemplates
    /\ _templates = <<>>
    /\ outcome = [op |-> None]
    /\ registered = <<>>
    /\ InstallIdle /\ InstanceIdle /\ RendererIdle
SpecRegistry == InitRegistry /\ [][NextRegistry]_vars

-----------------------------------------------------------------------------
(* C1 *)

Indent4 == <<SP, SP, SP, SP>>

\* the package names a command installs, in the order of the text: the lines
\* indented under the install line, without indent and line continuation
NameOfLine(line) ==
    LET body == SubSeq(line, 5, Len(line))
    IN  IF EndsWith(body, <<SP, BS>>) THEN SubSeq(body, 1, Len(body) - 2) ELSE body

InstalledNames(text) ==
    LET ls == SelectSeq(SplitLines(text), LAMBDA l : StartsWith(l, Indent4))
        ns == [i \in 1..Len(ls) |-> NameOfLine(ls[i])]
    IN  SelectSeq(ns, LAMBDA n : n # <<>>)

Count(l, x) == Cardinality({i \in 1..Len(l) : l[i] = x})

SameMembers(l1, l2) == \A x \in PkgNames : Count(l1, x) = Count(l2, x)

Ascending(l) == \A i, j \in 1..Len(l) : i < j => ~StrLess(l[j], l[i])

StrictlyAscending(l) == \A i, j \in 1..Len(l) : i < j => StrLess(l[i], l[j])

NoDuplicates(l) == \A i, j \in 1..Len(l) : i # j => l[i] # l[j]

-----------------------------------------------------------------------------
(* C2 *)

MethodsOf(t) == {m \in {"binaries", "source"} : t[m] # Absent}

HasDependencies(b) ==
    /\ b.dependencies # Absent
    /\ \E manager \in {"apt", "debs", "yum"} : Len(b.dependencies[manager]) > 0

HasMarker(b) ==
    \E i \in 1..Len(b.instructions) :
        /\ i + 3 <= Len(b.instructions)
        /\ b.instructions[i] = "self."
        /\ b.instructions[i + 1] = "install_dependencies"
        /\ b.instructions[i + 2] = "("
        /\ b.instructions[i + 3] = ")"

-----------------------------------------------------------------------------
(* C3, C4 *)

Constructed == instance.status # None

MissingRequired == \E r \in block.arguments.required : r \notin DOMAIN kwds

UnknownName ==
    \E n \in DOMAIN kwds : n \notin block.arguments.required \cup block.arguments.optional

ShadowsAttribute == \E n \in DOMAIN kwds : n \in DirSelf(kind)

VersionAccepted ==
    "version" \in block.arguments.required =>
        \/ kind = "source"
        \/ PyStr(kwds["version"]) \in DOMAIN block.urls
        \/ DOMAIN block.urls = {"ANY"}

\* C3 as stated: construction fails with the keyword-argument error whenever
\* a required argument is unbound or an unknown name is bound, and succeeds
\* whenever every required argument is bound and no unknown name is supplied.
C3_AsStated ==
    Constructed =>
        /\ (MissingRequired \/ UnknownName)
             => instance.status = TemplateKeywordArgumentError
        /\ (~MissingRequired /\ ~UnknownName) => instance.status = Ok

\* C3, amended: construction fails with the keyword-argument error whenever
\* a required argument is unbound or an unknown name is bound; it succeeds
\* whenever every required argument is bound, no unknown name is supplied, no
\* bound name is an attribute of the instance and a required version is one
\* the method accepts.
C3_KeywordCheck ==
    Constructed =>
        /\ (MissingRequired \/ UnknownName)
             => instance.status = TemplateKeywordArgumentError
        /\ (~MissingRequired /\ ~UnknownName /\ ~ShadowsAttribute /\ VersionAccepted)
             => /\ instance.status = Ok
                /\ DOMAIN instance._kwds = DOMAIN kwds

\* an instance with two required arguments and an optional one, all bound
C3_Witness ==
    /\ instance.status = Ok
    /\ block.arguments.required = {"version", "name"}
    /\ block.arguments.optional = {"age"}
    /\ DOMAIN kwds = {"version", "name", "age"}

BinariesWithVersion ==
    Constructed /\ "version" \in block.arguments.required /\ "version" \in DOMAIN kwds

\* C4 as stated: with version required and bound, a binaries method is
\* constructed iff the version is a key of urls, and a source method is
\* constructed whatever the version.
C4_AsStated ==
    BinariesWithVersion =>
        /\ kind = "binaries" =>
              (instance.status = Ok <=> PyStr(kwds["version"]) \in DOMAIN block.urls)
        /\ kind = "source" => instance.status = Ok

\* C4, amended: with version required and the other keyword checks passed
\* (every required argument bound, no unknown name, no name of an attribute),
\* a binaries method is constructed iff the version (as str) is a key of urls
\* or the keys of urls are exactly {ANY}, and is refused with the
\* keyword-argument error otherwise; a source method is constructed whatever
\* the version.
C4_VersionCheck ==
    (BinariesWithVersion /\ ~MissingRequired /\ ~UnknownName /\ ~ShadowsAttribute) =>
        /\ kind = "binaries" =>
              /\ instance.status = Ok <=>
                    \/ PyStr(kwds["version"]) \in DOMAIN block.urls
                    \/ DOMAIN block.urls = {"ANY"}
              /\ instance.status \in {Ok, TemplateKeywordArgumentError}
        /\ kind = "source" => instance.status = Ok

\* version 2.0 refused by a binaries method whose urls have the keys 1.5, 1.6
C4_Witness ==
    /\ kind = "binaries"
    /\ DOMAIN block.urls = {"1.5", "1.6"}
    /\ block.arguments.required = {"version"}
    /\ DOMAIN kwds = {"version"}
    /\ kwds["version"] = StrVal("2.0")
    /\ instance.status = TemplateKeywordArgumentError
    /\ instance.why = "version"

-----------------------------------------------------------------------------
(* C5 *)

\* the calls made on renderer r, oldest first
Log(r) == hist[r].log

\* a call that asks for the text or compares, and applies no instruction
IsRequest(e) == e.op \in {"str", "eq"}

\* two text requests on one renderer with no instruction applied in between
\* returned the same string
ConsecutiveTextsAgree ==
    \A r \in RendIds :
       \A i, j \in 1..Len(Log(r)) :
          ( /\ i < j
            /\ Log(r)[i].op = "str"
            /\ Log(r)[j].op = "str"
            /\ \A k \in i..j : IsRequest(Log(r)[k]) )
          => Log(r)[i].value = Log(r)[j].value

\* a step that is a text request
TextRequested == calls' = calls + 1 /\ last'.op = "str"

\* a text request leaves fragments, sections, existing users and the caller's
\* list as they are
TextRequestKeepsState ==
    [][TextRequested => UNCHANGED <<renderers, usets, srclist>>]_vars

\* C5: requesting the final text of a renderer of either dialect changes no
\* renderer state, and consecutive text requests with no instruction applied in
\* between return identical strings.
C5_TextRequestIsPure == []ConsecutiveTextsAgree /\ TextRequestKeepsState

\* a renderer with text was asked for it twice in a row
C5_Witness ==
    \E r \in RendIds :
       \E i \in 1..(Len(Log(r)) - 1) :
          /\ Log(r)[i].op = "str"
          /\ Log(r)[i + 1].op = "str"
          /\ Log(r)[i].value # <<>>

-----------------------------------------------------------------------------
(* C6 *)

\* the Dockerfile keyword of each built-in instruction
Keyword(op) ==
    CASE op = "from_" -> "FROM"
      [] op = "arg" -> "ARG"
      [] op = "copy" -> "COPY"
      [] op = "env" -> "ENV"
      [] op = "label" -> "LABEL"
      [] op \in {"run", "run_bash", "install"} -> "RUN"
      [] op = "user" -> "USER"
      [] op = "workdir" -> "WORKDIR"

\* an instruction that was applied: a call that is no request and returned
Applied(e) == ~IsRequest(e) /\ e.raised = None

\* the keywords of the fragments that the calls of a log stand for, in the
\* order of the calls; a switch to a user not known yet stands for a RUN
\* fragment that creates the user and the USER fragment
RECURSIVE ExpectedKeywords(_, _)
ExpectedKeywords(log, known) ==
    IF log = <<>> THEN <<>>
    ELSE LET e == log[1]
         IN  IF ~Applied(e) THEN ExpectedKeywords(Tail(log), known)
             ELSE IF e.op = "user"
             THEN (IF e.args[1] \in known THEN <<"USER">> ELSE <<"RUN", "USER">>)
                  \o ExpectedKeywords(Tail(log), known \cup {e.args[1]})
             ELSE <<Keyword(e.op)>> \o ExpectedKeywords(Tail(log), known)

\* fragments one per line group, each ended by a newline but the last
RECURSIVE NewlineJoined(_)
NewlineJoined(fragments) ==
    IF fragments = <<>> THEN <<>>
    ELSE IF Len(fragments) = 1 THEN fragments[1]
    ELSE NewlineJoined(SubSeq(fragments, 1, Len(fragments) - 1))
         \o <<NL>> \o fragments[Len(fragments)]

IsPrefix(a, b) == Len(a) <= Len(b) /\ SubSeq(b, 1, Len(a)) = a

\* the example of the claim: from_(alpine), arg(FOO), run(echo foobar)
ExampleApplied ==
    /\ Len(Log(1)) = 3
    /\ Log(1)[1].op = "from_" /\ Log(1)[1].args = <<<<"alpine">>, None>>
    /\ Log(1)[2].op = "arg" /\ Log(1)[2].args = <<"FOO", None>>
    /\ Log(1)[3].op = "run" /\ Log(1)[3].args = <<<<"echo", SP, "foobar">>>>

ExampleText ==
    <<"FROM", SP, "alpine", NL, "ARG", SP, "FOO", NL, "RUN", SP, "echo", SP, "foobar">>

\* the fragments stand in the order of application and the text is the
\* fragments joined by newlines
FragmentsInOrder ==
    renderers[1].live =>
       /\ [i \in 1..Len(renderers[1]._parts) |-> renderers[1]._parts[i][1]]
             = ExpectedKeywords(Log(1), hist[1].users0)
       /\ __str__(renderers[1]) = NewlineJoined(renderers[1]._parts)
       /\ last.op = "str" => last.value = NewlineJoined(renderers[1]._parts)
       /\ ExampleApplied => __str__(renderers[1]) = ExampleText

\* a call leaves the earlier fragments as they are and where they are
EarlierFragmentsKept ==
    [][renderers[1].live => IsPrefix(renderers[1]._parts, renderers'[1]._parts)]_vars

\* C6: for any sequence of built-in instructions applied to a Docker renderer
\* the final text is the per-instruction fragments in the order of
\* application, joined by newlines; an instruction only appends and never
\* reorders, rewrites or removes an earlier fragment.
C6_FragmentsInOrderOfApplication == []FragmentsInOrder /\ EarlierFragmentsKept

\* from_(alpine), arg(FOO), run(echo foobar) were applied in this order
C6_Witness == renderers[1].live /\ ExampleApplied /\ __str__(renderers[1]) = ExampleText

-----------------------------------------------------------------------------
(* C7 *)

\* what a fragment of renderer r is to a user: its creation, a switch to it,
\* or neither
UserFragment(cls, f) ==
    IF \E u \in Users : f = (IF cls = "docker" THEN DockerUserAdd(u)
                             ELSE SingularityUserAdd(u))
    THEN <<"create", CHOOSE u \in Users :
                        f = (IF cls = "docker" THEN DockerUserAdd(u)
                             ELSE SingularityUserAdd(u))>>
    ELSE IF \E u \in Users : f = (IF cls = "docker" THEN DockerUser(u)
                                  ELSE SingularityUser(u))
    THEN <<"switch", CHOOSE u \in Users :
                        f = (IF cls = "docker" THEN DockerUser(u)
                             ELSE SingularityUser(u))>>
    ELSE <<"other", None>>

\* the creations and switches among the fragments of renderer r, in order
UserFragments(r) ==
    LET fs == IF renderers[r].cls = "docker" THEN renderers[r]._parts
              ELSE renderers[r]._post
        all == [i \in 1..Len(fs) |-> UserFragment(renderers[r].cls, fs[i])]
    IN  SelectSeq(all, LAMBDA x : x[1] # "other")

\* what the user calls of a log are to emit: a switch each, and before the
\* first switch to a user that the renderer did not start with, its creation
RECURSIVE ExpectedUserFragments(_, _)
ExpectedUserFragments(log, known) ==
    IF log = <<>> THEN <<>>
    ELSE LET e == log[1]
         IN  IF e.op # "user" THEN ExpectedUserFragments(Tail(log), known)
             ELSE (IF e.args[1] \in known THEN <<>> ELSE <<<<"create", e.args[1]>>>>)
                  \o <<<<"switch", e.args[1]>>>>
                  \o ExpectedUserFragments(Tail(log), known \cup {e.args[1]})

\* C7: over any sequence of user(u) calls on one renderer of either dialect
\* every call emits a switch fragment, and a creation fragment for u is
\* emitted exactly once, immediately before the first switch to u, if and only
\* if u was not in the renderer's initial existing-users set.
C7_CreationOnceBeforeFirstSwitch ==
    \A r \in RendIds :
       renderers[r].live =>
          UserFragments(r) = ExpectedUserFragments(Log(r), hist[r].users0)

-----------------------------------------------------------------------------
(* C8 *)

\* the sections of a definition file in their fixed order, and the bucket of
\* each
SectionNames == <<"%files", "%environment", "%post", "%runscript", "%labels">>

Bucket(rec, k) ==
    CASE k = 1 -> rec._files
      [] k = 2 -> rec._environment
      [] k = 3 -> rec._post
      [] k = 4 -> rec._runscript
      [] k = 5 -> rec._labels

Positions(text, atom) == {i \in 1..Len(text) : text[i] = atom}

\* text is the header of rec followed by the sections of its non-empty
\* buckets in the fixed order, each behind one blank line
HeaderThenSections(rec, text) ==
    LET at == [k \in 1..5 |-> Positions(text, SectionNames[k])]
    IN  /\ rec._header # <<>> <=> Positions(text, "Bootstrap:") # {}
        /\ rec._header # <<>> =>
              StartsWith(text, <<"Bootstrap:", SP, rec._header[1], NL, "From:", SP>>
                               \o rec._header[2])
        /\ \A k \in 1..5 :
              /\ Cardinality(at[k]) = (IF Bucket(rec, k) # <<>> THEN 1 ELSE 0)
              /\ \A i \in at[k] :
                    /\ i >= 3
                    /\ text[i - 1] = NL
                    /\ text[i - 2] = NL
                    /\ i > 3 => text[i - 3] # NL
                    /\ i < Len(text) /\ text[i + 1] = NL
                    /\ rec._header # <<>> => i > 6 + Len(rec._header[2])
                    /\ rec._header = <<>> /\ (\A j \in 1..(k - 1) : Bucket(rec, j) = <<>>)
                          => i = 3
        /\ \A k, l \in 1..5 :
              k < l => \A i \in at[k], j \in at[l] : i < j

\* the example of the claim: from_(alpine), copy([a.txt, b.txt], /opt/)
ExampleDefinitionFile ==
    <<"Bootstrap:", SP, "docker", NL, "From:", SP, "alpine", NL, NL,
      "%files", NL, "a.txt", SP, "/opt/", NL, "b.txt", SP, "/opt/">>

ExampleFilesApplied ==
    /\ Len(Log(1)) = 2
    /\ Log(1)[1].op = "from_" /\ Log(1)[1].args = <<<<"alpine">>, None>>
    /\ Log(1)[2].op = "copy"
    /\ Log(1)[2].args = <<"list", <<"a.txt", "b.txt">>, "/opt/", None, None>>

\* C8: the Singularity text is the header followed by the files, environment,
\* post, runscript and labels sections in that fixed order, whatever the order
\* of application; a section appears iff its bucket is non-empty and
\* consecutive parts are separated by one blank line.
C8_SectionsInFixedOrder ==
    (renderers[1].live /\ renderers[1].cls = "singularity") =>
       /\ HeaderThenSections(renderers[1], __str__(renderers[1]))
       /\ last.op = "str" => HeaderThenSections(renderers[1], last.value)
       /\ ExampleFilesApplied => __str__(renderers[1]) = ExampleDefinitionFile

\* run, then copy, then from_: the text has the header, %files and %post, in
\* the reverse of the order of application
C8_Witness ==
    /\ renderers[1].live /\ renderers[1].cls = "singularity"
    /\ Len(Log(1)) = 3
    /\ Log(1)[1].op = "run" /\ Log(1)[2].op = "copy" /\ Log(1)[3].op = "from_"
    /\ renderers[1]._header # <<>>
    /\ renderers[1]._files # <<>>
    /\ renderers[1]._post # <<>>

-----------------------------------------------------------------------------
(* C9 *)

\* the last call was add_template with a Template whose instance for the
\* method exists: its arguments were validated when the Template was made
MergedValidInstance ==
    /\ last.op = "add_template"
    /\ last.args[1].isTemplate
    /\ last.args[2] \in allowed_installation_methods
    /\ last.args[1].obj[last.args[2]] # Absent
    /\ last.args[1].obj[last.args[2]].status = Ok

\* the last fragment of the text of renderer r: the run text of the merge
LastFragment(r) ==
    LET fs == IF renderers[r].cls = "docker" THEN renderers[r]._parts
              ELSE renderers[r]._post
    IN  IF fs = <<>> THEN <<>> ELSE fs[Len(fs)]

\* C9: merging a recipe instance whose arguments are all validly bound into a
\* renderer succeeds and appends run text in which every self-reference is
\* replaced by the bound value (the literal URL for urls[version]); the final
\* text holds no unresolved template marker.
C9_MergeSubstitutes ==
    MergedValidInstance =>
       /\ last.raised = None
       /\ last.args[2] = "binaries" =>
             Contains(LastFragment(last.rid), <<"curl", SP>> \o Url16)
       /\ ~Contains(__str__(renderers[last.rid]), <<"{{">>)
       /\ ~Contains(__str__(renderers[last.rid]), <<"self.">>)

-----------------------------------------------------------------------------
(* C10 *)

\* a blank line, and a line that is a comment from its first character that
\* is no whitespace
IsBlank(line) == \A i \in 1..Len(line) : IsSpace(line[i])

IsFullLineComment(line) ==
    \E i \in 1..Len(line) :
       /\ line[i] = "#"
       /\ \A j \in 1..(i - 1) : IsSpace(line[j])

\* the lines of a text: what stands between its beginning, its newlines and
\* its end
Breaks(text) ==
    {0, Len(text) + 1} \cup {i \in 1..Len(text) : text[i] = NL}

LinesOf(text) ==
    LET bs == Breaks(text)
        nth(n) == CHOOSE b \in bs : Cardinality({c \in bs : c < b}) = n - 1
    IN  [n \in 1..(Cardinality(bs) - 1) |-> SubSeq(text, nth(n) + 1, nth(n + 1) - 1)]

\* the lines of a text that are neither blank nor a comment
Kept(text) ==
    SelectSeq(LinesOf(text), LAMBDA l : ~IsBlank(l) /\ ~IsFullLineComment(l))

SameButBlanksAndComments(a, b) == Kept(a) = Kept(b)

\* the text of what a renderer was compared with
TextOfOther(other) ==
    IF other.k = "renderer" THEN __str__(renderers[other.id]) ELSE other.text

\* C10: two renderers, or a renderer and a raw text, compare equal iff their
\* texts are identical after removing blank lines and full-line comments; the
\* comparison is reflexive and symmetric.
C10_EqualUpToBlanksAndComments ==
    (last.op = "eq" /\ last.raised = None) =>
       LET mine == __str__(renderers[last.rid])
           theirs == TextOfOther(last.args[1])
       IN  /\ last.value = PyBool(SameButBlanksAndComments(mine, theirs))
           /\ __eq__(renderers[last.rid], mine)
           /\ last.args[1].k = "renderer" =>
                 PyBool(__eq__(renderers[last.args[1].id], mine)) = last.value

\* two renderers whose texts differ by a comment line were compared and are
\* equal
C10_Witness ==
    /\ last.op = "eq"
    /\ last.args[1].k = "renderer"
    /\ last.value = "True"
    /\ __str__(renderers[last.rid]) # __str__(renderers[last.args[1].id])

-----------------------------------------------------------------------------
(* C11 *)

\* entry e of a log is a merge of the jq Template bound to version v by the
\* method binaries
MergeOfVersion(e, v) ==
    /\ e.op = "add_template"
    /\ e.args[1].isTemplate
    /\ e.args[2] = "binaries"
    /\ e.args[1].obj.binaries.attrs["version"] = v

\* positions i < j of the fragments of renderer r that hold the two URLs,
\* each in a run fragment of its own
UrlsInOwnFragments(r, first, second) ==
    LET fs == renderers[r]._parts
    IN  \E i, j \in 1..Len(fs) :
           /\ i < j
           /\ StartsWith(fs[i], <<"RUN", SP>>) /\ StartsWith(fs[j], <<"RUN", SP>>)
           /\ Contains(fs[i], first) /\ ~Contains(fs[i], second)
           /\ Contains(fs[j], second) /\ ~Contains(fs[j], first)

\* C11: instances with different bound values merged into one renderer are
\* each resolved with their own values: after jq is merged with version 1.5
\* and then with version 1.6, both merges have succeeded and the text holds
\* the 1.5 URL and the 1.6 URL, each in its own run fragment, in merge order.
C11_EachInstanceOwnValues ==
    \A i, j \in 1..Len(Log(1)) :
       (i < j /\ MergeOfVersion(Log(1)[i], "1.5") /\ MergeOfVersion(Log(1)[j], "1.6"))
          => /\ Log(1)[i].raised = None
             /\ Log(1)[j].raised = None
             /\ UrlsInOwnFragments(1, Url15, Url16)

-----------------------------------------------------------------------------
(* C12 *)

\* the last call was from_dict and a pass over one of its instructions failed
FromDictFailedOnInstruction ==
    /\ last.op = "from_dict"
    /\ last.raised # None
    /\ last.value.at > 0

\* C12: every failure raised while from_dict applies an instruction (a
\* built-in that raises, a registry miss, a method the recipe does not
\* define, an instance-construction error) reaches the caller as a renderer
\* error that carries the original error as its cause.
C12_EveryFailureWrapped ==
    FromDictFailedOnInstruction =>
       /\ last.raised = RendererError
       /\ last.value.cause # None

-----------------------------------------------------------------------------
(* C13 *)

\* the last call was add_registered_template of a name the registry knew;
\* the recipe behind the name is the one the behaviour registers
InstantiatedRegistered ==
    /\ last.op = "add_registered_template"
    /\ last.value.at # "get"

\* method is a block the recipe defines
Defines(t, method) == method \in {"binaries", "source"} /\ t[method] # Absent

MethodResolved ==
    InstantiatedRegistered =>
       /\ last.args[2] = None =>
             last.value.method = IF Defines(template, "binaries") THEN "binaries"
                                 ELSE "source"
       /\ (last.args[2] # None /\ ~Defines(template, last.args[2])) =>
             /\ last.raised = RendererError
             /\ last.value.at = "method"

\* a call with an explicit method the recipe does not define merges nothing
UndefinedMethodMergesNothing ==
    [][(/\ calls' = calls + 1
        /\ last'.op = "add_registered_template"
        /\ last'.value.at = "method")
          => /\ renderers' = renderers
             /\ usets' = usets]_vars

\* C13: a registered recipe instantiated without a method takes binaries if
\* the recipe has a binaries block and source otherwise; with an explicit
\* method the recipe does not define, the call fails with a renderer error and
\* nothing is merged.
C13_MethodResolution == []MethodResolved /\ UndefinedMethodMergesNothing

\* the default resolved to source on a recipe without binaries, and an
\* earlier state saw an undefined explicit method refused
C13_Witness ==
    /\ InstantiatedRegistered
    /\ last.args[2] = None
    /\ ~Defines(template, "binaries")
    /\ last.value.method = "source"
    /\ \E e \in {Log(1)[i] : i \in 1..Len(Log(1)) - 1} :
          e.op = "add_registered_template" /\ e.value.at = "method"

-----------------------------------------------------------------------------
(* C14 *)

\* a name with its case ignored
IgnoringCase(n) == IF n \in {"JQ", "Jq", "jQ"} THEN "jq" ELSE n

\* the positions in registered of the registrations under a name equal to n
\* ignoring case
RegistrationsUnder(n) ==
    {i \in 1..Len(registered) : IgnoringCase(registered[i].name) = IgnoringCase(n)}

Latest(S) == CHOOSE i \in S : \A j \in S : j <= i

GetReturnsLatest ==
    outcome.op = "get" =>
       IF RegistrationsUnder(outcome.name) = {}
       THEN outcome.result = TemplateNotFound
       ELSE /\ outcome.result = Ok
            /\ outcome.value = registered[Latest(RegistrationsUnder(outcome.name))].template

KeysAreLowerCasedNames ==
    outcome.op = "keys" =>
       outcome.value = {IgnoringCase(registered[i].name) : i \in 1..Len(registered)}

\* C14: after any sequence of register and reset, get(n) returns the
\* structure most recently registered under a name equal to n ignoring case
\* and fails with TemplateNotFound iff there was no such registration since
\* the last reset; keys() is the set of the lower-cased registered names.
C14_LastWriteWins == GetReturnsLatest /\ KeysAreLowerCasedNames

\* get("jq") after two different structures were registered as jq and as JQ
C14_Witness ==
    /\ outcome.op = "get" /\ outcome.name = "jq" /\ outcome.result = Ok
    /\ Len(registered) = 2
    /\ registered[1].name = "jq" /\ registered[2].name = "JQ"
    /\ registered[1].template # registered[2].template
    /\ outcome.value = registered[2].template

-----------------------------------------------------------------------------
(* C15 *)

\* t passes definition validation: the schema accepts it and every method
\* with dependencies installs them
PassesValidation(t) ==
    /\ t.schema_ok
    /\ \A m \in MethodsOf(t) : HasDependencies(t[m]) => HasMarker(t[m])

EveryStoredRecipeValid ==
    \A k \in DOMAIN _templates : PassesValidation(_templates[k])

\* a register call that fails leaves the registry as it was
FailedRegisterKeepsRegistry ==
    [][(outcome'.op = "register" /\ outcome'.result # Ok) =>
          _templates' = _templates]_vars

-----------------------------------------------------------------------------
(* C16 *)

\* the existing users of renderer r
UsersOf(r) == usets[renderers[r]._users]

\* C16: two distinct renderers share no mutable state: a call on one
\* renderer (user(u) in particular) changes neither the existing-users set
\* nor the text of any other renderer, also when both were constructed from
\* the same caller-supplied set.
C16_RenderersIndependent ==
    [][\A r, o \in RendIds :
          (/\ r # o
           /\ Live(r) /\ Live(o)
           /\ calls' = calls + 1
           /\ last'.rid = r)
             => /\ UsersOf(o)' = UsersOf(o)
                /\ __str__(renderers[o])' = __str__(renderers[o])]_vars

-----------------------------------------------------------------------------
(* C17 *)

\* the section buckets of a definition-file renderer
Buckets(rec) ==
    <<rec._header, rec._files, rec._environment, rec._post, rec._runscript, rec._labels>>

\* C17: on the definition-file (Singularity) renderer arg(key[, value])
\* always fails with a 'not supported' error and leaves every section bucket
\* unchanged.
C17_ArgRejected ==
    [][(/\ calls' = calls + 1
        /\ last'.op = "arg"
        /\ renderers[last'.rid].cls = "singularity")
          => /\ last'.raised # None
             /\ Buckets(renderers'[last'.rid]) = Buckets(renderers[last'.rid])]_vars

-----------------------------------------------------------------------------
(* C18 *)

\* the step a line of an install command belongs to; the indented lines
\* continue the install line
StepOf(line) ==
    IF line = <<>> THEN "other"
    ELSE IF line[1] = "apt-get update -qq" THEN "update"
    ELSE IF line[1] \in {"apt-get install -y", "yum install -y"} THEN "install"
    ELSE IF StartsWith(line, <<SP>>) THEN "install"
    ELSE IF line[1] \in {"yum clean all", "rm -rf /var/lib/apt/lists/*",
                         "rm -rf /var/cache/yum/*"} THEN "cleanup"
    ELSE "other"

Rank(step) ==
    CASE step = "update" -> 1 [] step = "install" -> 2 [] step = "cleanup" -> 3
      [] OTHER -> 0

\* text consists of the steps of expected, each present, in the order of Rank
StepsInOrder(text, expected) ==
    LET ls == SplitLines(text)
    IN  /\ \A i \in 1..Len(ls) : StepOf(ls[i]) \in expected
        /\ \A i, j \in 1..Len(ls) : i < j => Rank(StepOf(ls[i])) <= Rank(StepOf(ls[j]))
        /\ \A step \in expected : \E i \in 1..Len(ls) : StepOf(ls[i]) = step

\* C18 as stated: for apt and for yum the command consists of an update
\* step, then an install step, then a cleanup step.
C18_AsStated ==
    command.fn # None =>
       StepsInOrder(command.text, {"update", "install", "cleanup"})

\* C18: the apt command consists of an update step, then an install step,
\* then a cleanup step; the yum command consists of an install step and then
\* a cleanup step, and has no update step.
C18_StepsInOrder ==
    /\ command.fn = "apt" =>
          StepsInOrder(command.text, {"update", "install", "cleanup"})
    /\ command.fn = "yum" => StepsInOrder(command.text, {"install", "cleanup"})

\* an apt command for two packages
C18_Witness ==
    /\ command.fn = "apt"
    /\ Len(pkgs) = 2
    /\ Len(SplitLines(command.text)) = 5

-----------------------------------------------------------------------------
(* C19 *)

\* keywords k that the method block b refuses: a required argument is
\* missing, a name is unknown, or the version is none of the urls
BadKeywords(b, k) ==
    \/ \E a \in b.arguments.required : a \notin DOMAIN k
    \/ \E n \in DOMAIN k : n \notin b.arguments.required \cup b.arguments.optional
    \/ /\ "version" \in b.arguments.required /\ "version" \in DOMAIN k
       /\ b.urls # Absent
       /\ k["version"].v \notin DOMAIN b.urls

\* the step is a call of add_registered_template for a registered recipe and
\* a method it defines, with keywords the block of that method refuses
FailsAtConstruction ==
    /\ calls' = calls + 1
    /\ last'.op = "add_registered_template"
    /\ last'.value.at \notin {"get", "method"}
    /\ BadKeywords(template[last'.value.method], last'.args[3])

\* C19: when instantiating a registered recipe fails at instance
\* construction (missing required argument, unknown argument, invalid
\* version) the error reaches the caller, and the accumulated output and the
\* existing users of the renderer are as before the call.
C19_ConstructionFailureKeepsRenderer ==
    [][\A r \in RendIds :
          (FailsAtConstruction /\ last'.rid = r) =>
             /\ last'.raised = TemplateKeywordArgumentError
             /\ renderers'[r] = renderers[r]
             /\ __str__(renderers[r])' = __str__(renderers[r])
             /\ UsersOf(r)' = UsersOf(r)]_vars

\* a renderer that holds a run fragment refused version 9.9 of the
\* registered jq and still holds that fragment only
C19_Witness ==
    /\ last.op = "add_registered_template"
    /\ last.value.at = "Template"
    /\ last.args[3] = Version99
    /\ last.raised = TemplateKeywordArgumentError
    /\ Len(Log(1)) = 2
    /\ Log(1)[1].op = "run"
    /\ Len(renderers[1]._parts) = 1

-----------------------------------------------------------------------------
(* C20 *)

\* the last call was a constructor call
Constructing == last.op = "new"

ConstructorChecksManager ==
    Constructing =>
       IF last.args[2] \in {"apt", "yum"}
       THEN last.raised = None /\ Live(last.rid)
       ELSE last.raised = RendererError /\ ~Live(last.rid)

NewRendererState ==
    (Constructing /\ last.raised = None) =>
       /\ UsersOf(last.rid) = IF last.args[3] = None THEN {"root"} ELSE usets[CallerSet]
       /\ __str__(renderers[last.rid]) = <<>>

\* C20: a renderer is constructed only with a package manager of the allowed
\* enumeration, any other value failing at construction with a renderer
\* error; a new renderer has the existing users {root} when no set is
\* supplied, the supplied set otherwise, and empty accumulated output.
C20_Construction == ConstructorChecksManager /\ NewRendererState

\* a renderer constructed from the caller's set after another renderer made
\* it {root, bob}
C20_Witness ==
    /\ Constructing /\ last.raised = None
    /\ last.args[3] = "caller"
    /\ UsersOf(last.rid) = {"root", "bob"}
    /\ __str__(renderers[last.rid]) = <<>>

-----------------------------------------------------------------------------
(* C21 *)

\* the last call instantiated, by method binaries and with version 1.6, a
\* registered recipe whose two methods each have required arguments
InstantiatedOneOfTwo ==
    /\ last.op = "add_registered_template"
    /\ last.value.at # "get"
    /\ last.args[2] = "binaries"
    /\ last.args[3] = Version16
    /\ Defines(template, "binaries") /\ Defines(template, "source")
    /\ template.binaries.arguments.required # {}
    /\ template.source.arguments.required # {}

\* C21: instantiating a registered recipe that defines both methods, each
\* with its own required arguments, with method M and keyword values valid
\* for M succeeds; the required arguments of the other method are not
\* demanded.
C21_OtherMethodNotDemanded ==
    InstantiatedOneOfTwo =>
       /\ last.raised # TemplateKeywordArgumentError
       /\ last.value.at # "Template"

-----------------------------------------------------------------------------
-----------------------------------------------------------------------------
(* C22 *)

\* the names an instance of a method block answers to
DefinedNames(inst) == DirSelf(inst.kind) \cup DOMAIN inst.attrs

\* the text has a reference self.<name> to a name the instance lacks
NamesUndefined(text, inst) ==
    \E i \in 1..(Len(text) - 1) :
        text[i] = "self." /\ text[i + 1] \notin DefinedNames(inst)

\* the last call merged a Template instance by a method it defines, and the
\* instruction text of that method references an undefined name
MergedUndefinedName ==
    /\ last.op = "add_template"
    /\ last.args[1].isTemplate
    /\ last.args[2] \in {"binaries", "source"}
    /\ last.args[1].obj[last.args[2]] # Absent
    /\ NamesUndefined(last.args[1].obj[last.args[2]]._template.instructions,
                      last.args[1].obj[last.args[2]])

\* C22: a merge whose instruction text references a name that is neither a
\* bound argument nor a field or helper of the instance fails with the
\* renderer error of the evaluation ("A template included in this renderer
\* raised an error")
C22_UndefinedNameReported ==
    MergedUndefinedName => last.raised = RendererError

-----------------------------------------------------------------------------
-----------------------------------------------------------------------------
(* C23 *)

\* a step that merges, into the Docker renderer r, a valid instance whose
\* method declares env and has instruction text in which every name is
\* defined
MergesEnvAndInstructions(r) ==
    /\ calls' = calls + 1
    /\ last'.rid = r
    /\ renderers[r].cls = "docker"
    /\ MergedValidInstance'
    /\ last'.args[1].obj[last'.args[2]]._template.env # <<>>
    /\ last'.args[1].obj[last'.args[2]]._template.instructions # <<>>
    /\ ~NamesUndefined(last'.args[1].obj[last'.args[2]]._template.instructions,
                       last'.args[1].obj[last'.args[2]])

\* C23: merging a recipe instance whose method declares env and instructions
\* applies one env instruction and then one run instruction: the renderer
\* gains the env fragment of the method followed by one run fragment.
C23_EnvThenRun ==
    [][\A r \in RendIds :
          MergesEnvAndInstructions(r) =>
             LET before == renderers[r]._parts
                 after == renderers'[r]._parts
             IN  /\ Len(after) = Len(before) + 2
                 /\ SubSeq(after, 1, Len(before)) = before
                 /\ after[Len(before) + 1] =
                       DockerEnv(last'.args[1].obj[last'.args[2]]._template.env)
                 /\ StartsWith(after[Len(before) + 2], <<"RUN", SP>>)]_vars

-----------------------------------------------------------------------------
-----------------------------------------------------------------------------
(* C29 *)

\* the last call merged, into a renderer of the apt package manager, a valid
\* instance whose method declares debian-package URLs
MergedDebsWithApt ==
    /\ MergedValidInstance
    /\ renderers[last.rid].pkg_manager = "apt"
    /\ last.args[1].obj[last.args[2]]._template.dependencies # Absent
    /\ last.args[1].obj[last.args[2]]._template.dependencies.debs # <<>>

\* C29: with the apt package manager, a merge of a method that declares
\* debian-package URLs puts into the run command, for each URL, the download
\* of that URL (followed by its install and removal).
C29_DebsDownloaded ==
    MergedDebsWithApt =>
       \A i \in 1..Len(last.args[1].obj[last.args[2]]._template.dependencies.debs) :
          Contains(LastFragment(last.rid),
                   <<"curl", SP, "-fsSL", SP, "--retry", SP, "5", SP, "-o", SP,
                     "\"", "${_reproenv_tmppath}", "\"", SP>>
                   \o last.args[1].obj[last.args[2]]._template.dependencies.debs[i])

-----------------------------------------------------------------------------
-----------------------------------------------------------------------------
(* C24 *)

\* the last call was run(command) on a Docker renderer
RanOnDocker ==
    /\ last.op = "run"
    /\ renderers[last.rid].cls = "docker"

\* the lines handed to the reflow
LinesIn(command_) == SplitLines(<<"RUN", SP>> \o command_)

IsCommentLine(line) == StartsWith(RStrip(line), <<"#">>)

\* the line begins with a continuation operator (&&, &, ||, |)
StartsWithOperator(line) == StartsWith(line, <<"&">>) \/ StartsWith(line, <<"|">>)

\* line i of the input begins with an operator or follows a line that ends
\* in a backslash
Continued(in, i) ==
    \/ StartsWithOperator(RStrip(in[i]))
    \/ EndsWith(in[i - 1], <<BS>>)

\* line i of the input closes an if block (begins with "fi") or follows a line
\* that begins with "if"
InIfBlock(in, i) ==
    \/ StartsWithWord(RStrip(in[i]), "fi")
    \/ StartsWithWord(in[i - 1], "if")

\* output line i is input line i behind its indent, with or without the
\* conjunction in front
Unprefixed(in, out, i) == StartsWith(LStrip(out[i]), RStrip(in[i]))
Prefixed(in, out, i) == StartsWith(LStrip(out[i]), <<"&", "&", SP>> \o RStrip(in[i]))

\* what holds of every reflow: as many lines as were given, the first line
\* kept, a backslash at the end of every non-comment line but the last
OneInstruction(in, out) ==
    /\ Len(out) = Len(in)
    /\ StartsWith(out[1], RStrip(in[1]))
    /\ \A i \in 1..(Len(in) - 1) :
          ~IsCommentLine(in[i]) => EndsWith(out[i], <<BS>>)

\* C24 as stated: a line that starts with a continuation operator or follows
\* a line ending in a backslash gets no conjunction prefix, and every other
\* non-first non-comment line is prefixed with the conjunction.
C24_Original ==
    RanOnDocker =>
       \E in \in {LinesIn(last.args[1])} :
       \E out \in {SplitLines(LastFragment(last.rid))} :
          /\ OneInstruction(in, out)
          /\ \A i \in 2..Len(in) :
                ~IsCommentLine(in[i]) =>
                   IF Continued(in, i) THEN Unprefixed(in, out, i)
                   ELSE Prefixed(in, out, i)

\* C24: reflowing a multi-line run command for the Docker dialect keeps the
\* first line, ends every non-comment line but the last with a backslash,
\* gives no conjunction prefix to a line that starts with a continuation
\* operator or with "fi", or that follows a line ending in a backslash or
\* beginning with "if", and prefixes every other non-first non-comment line
\* with the conjunction.
C24_Reflow ==
    RanOnDocker =>
       \E in \in {LinesIn(last.args[1])} :
       \E out \in {SplitLines(LastFragment(last.rid))} :
          /\ OneInstruction(in, out)
          /\ \A i \in 2..Len(in) :
                ~IsCommentLine(in[i]) =>
                   IF Continued(in, i) \/ InIfBlock(in, i)
                   THEN Unprefixed(in, out, i)
                   ELSE Prefixed(in, out, i)

\* a command with an if block was run: a line that follows neither a backslash
\* nor begins with an operator went without the conjunction
C24_Witness ==
    /\ RanOnDocker
    /\ \E in \in {LinesIn(last.args[1])} :
       \E out \in {SplitLines(LastFragment(last.rid))} :
          /\ \E i \in 2..Len(in) :
                /\ ~IsCommentLine(in[i]) /\ ~Continued(in, i) /\ InIfBlock(in, i)
                /\ Unprefixed(in, out, i) /\ ~Prefixed(in, out, i)
          /\ \E i \in 2..Len(in) : Continued(in, i) /\ Unprefixed(in, out, i)
          /\ \E i \in 2..Len(in) :
                /\ ~Continued(in, i) /\ ~InIfBlock(in, i) /\ ~IsCommentLine(in[i])
                /\ Prefixed(in, out, i)

-----------------------------------------------------------------------------
-----------------------------------------------------------------------------
(* C26 *)

\* a step that is a copy call on a Docker renderer
DockerCopyStep ==
    /\ calls' = calls + 1
    /\ last'.op = "copy"
    /\ \E r \in RendIds : last'.rid = r /\ renderers[r].cls = "docker"

\* C26: DockerRenderer.copy leaves the source list of the caller as it was.
C26_SourceListKept ==
    [][DockerCopyStep => srclist' = srclist]_vars

-----------------------------------------------------------------------------
-----------------------------------------------------------------------------
(* C27 *)

\* the %labels lines the claim describes: one "name value" line per label,
\* the lines separated by newlines
LabelLines(labels) ==
    Join(<<NL>>, [i \in 1..Len(labels) |-> <<labels[i][1], SP, labels[i][2]>>])

\* C27: in the text of a Singularity renderer the %labels section holds one
\* line "name value" per distinct label name, the lines separated by
\* newlines.
C27_OneLinePerLabel ==
    \A r \in RendIds :
        (Live(r) /\ renderers[r].cls = "singularity" /\ renderers[r]._labels # <<>>) =>
           EndsWith(__str__(renderers[r]),
                    <<NL, NL, "%labels", NL>> \o LabelLines(renderers[r]._labels))

-----------------------------------------------------------------------------
-----------------------------------------------------------------------------
(* C28 *)

\* a step that is an add_template call on renderer r which raised
MergeFailed(r) ==
    /\ calls' = calls + 1
    /\ last'.op = "add_template"
    /\ last'.rid = r
    /\ last'.raised # None

\* C28: an add_template call that fails leaves the text of the renderer as it
\* was before the call; no env fragment of the failed recipe remains.
C28_FailedMergeKeepsOutput ==
    [][\A r \in RendIds :
          MergeFailed(r) => __str__(renderers[r])' = __str__(renderers[r])]_vars

-----------------------------------------------------------------------------
-----------------------------------------------------------------------------
(* C30 *)

\* the instruction operations
Operations ==
    { "from_", "arg", "copy", "env", "install", "label", "run", "run_bash", "user",
      "workdir" }

\* the last call was from_dict and the pass it ended in was over a record
\* whose name is no instruction operation and is registered
EndedAtRegisteredName ==
    /\ last.op = "from_dict"
    /\ last.value.at > 0
    /\ last.args[2].instructions[last.value.at].name \notin Operations
    /\ Lower(last.args[2].instructions[last.value.at].name) \in DOMAIN _templates

\* C30: from_dict looks up in the recipe registry every record name that is
\* not one of the instruction operations, also a name equal to another
\* attribute of the renderer such as users: the pass over such a record is a
\* merge of the registered recipe and ends as add_registered_template ends.
C30_OtherNamesAreRecipes ==
    EndedAtRegisteredName =>
       \E a \in { add_registered_template(
                     _templates, last.args[2].instructions[last.value.at].name,
                     KwMethod(last.args[2].instructions[last.value.at].kwds),
                     KwRest(last.args[2].instructions[last.value.at].kwds)) } :
          /\ last.value.cause # "TypeError"
          /\ last.raised = IF IsTemplateError(a.raised) THEN RendererError ELSE a.raised

-----------------------------------------------------------------------------
-----------------------------------------------------------------------------
(* C25 *)

\* the arguments of the direct call that a record stands for
Positional(mapping) ==
    CASE mapping.name \in {"env", "label"} -> <<mapping.kwds>>
      [] mapping.name \in {"run", "run_bash"} -> <<mapping.kwds["command"]>>
      [] mapping.name = "user" -> <<mapping.kwds["user"]>>
      [] mapping.name = "workdir" -> <<mapping.kwds["path"]>>
      [] mapping.name = "arg" -> <<mapping.kwds["key"], Kw(mapping.kwds, "value")>>
      [] mapping.name = "from_" ->
            <<mapping.kwds["base_image"], Kw(mapping.kwds, "as_")>>

\* renderer made was built by from_dict from a list of records, and the calls
\* made on the fresh renderer direct are those records, one call per record,
\* in the order of the list
BuiltFromSameCalls(direct, made) ==
    /\ Live(direct) /\ Live(made)
    /\ renderers[direct].cls = renderers[made].cls
    /\ renderers[direct].pkg_manager = renderers[made].pkg_manager
    /\ Log(made) # <<>>
    /\ Log(made)[1].op = "from_dict"
    /\ Log(made)[1].raised = None
    /\ hist[direct].users0 = {"root"}
    /\ Len(Log(direct)) = Len(Log(made)[1].args[2].instructions)
    /\ \A i \in 1..Len(Log(direct)) :
          /\ Log(direct)[i].op = Log(made)[1].args[2].instructions[i].name
          /\ Log(direct)[i].raised = None
          /\ Log(direct)[i].args = Positional(Log(made)[1].args[2].instructions[i])

\* the fields of a renderer, the users behind _users in place of the reference
StateOf(r) ==
    [rec |-> [renderers[r] EXCEPT !._users = 0], users |-> UsersOf(r)]

\* C25: the renderer that from_dict builds from a list of records naming
\* built-in instructions has the state and the text of a fresh renderer on
\* which the instruction methods were called directly, one per record, in
\* list order, with the same keyword arguments.
C25_FromDictIsDirectCalls ==
    BuiltFromSameCalls(1, 2) =>
       /\ StateOf(2) = StateOf(1)
       /\ __str__(renderers[2]) = __str__(renderers[1])

\* two records of different methods, one of them user, were applied both ways
C25_Witness ==
    /\ BuiltFromSameCalls(1, 2)
    /\ Len(Log(1)) = 2
    /\ Log(1)[1].op # Log(1)[2].op
    /\ \E i \in 1..2 : Log(1)[i].op = "user"
    /\ __str__(renderers[2]) # <<>>

=============================================================================
